---- MODULE Spec2Model ----
(***************************************************************************)
(* EventStore-Client-Helpers: the stream reconstructor (StreamHelper) and  *)
(* the aggregate transaction coordinator (AggregateHelper), over an        *)
(* append-only, revision-ordered event log.                                *)
(*                                                                         *)
(* The log is the variable `streams`: a function from the ids of the       *)
(* streams that have been written to the sequence of recorded events;      *)
(* revision r of a stream is element r+1 of its sequence.  A stream id     *)
(* outside DOMAIN streams is a stream that was never written (the log      *)
(* client signals StreamNotFound for it).                                  *)
(*                                                                         *)
(* Every public operation is run by a caller p.  Operations that await the *)
(* log (commitTransaction, getCurrentState) take one step per await; the   *)
(* caller's position is call[p].  The sequential specifications (Spec,     *)
(* SpecRead) start an operation only when no other operation is in flight, *)
(* as section 5 of the design requires of callers.                         *)
(***************************************************************************)
EXTENDS Integers, Sequences, FiniteSets, TLC

VARIABLES
    streams,            \* the event log: stream id -> sequence of recorded events
    pendingEvents,      \* AggregateHelper.pendingEvents: Map<streamId, E[]>
    entityVersions,     \* AggregateHelper.entityVersions: Map<entityStreamId, number>
    call,               \* per caller: the operation in flight and its position
    ret,                \* per caller: outcome of the caller's last completed call
    nextEventId,        \* payload of the next event a caller hands to addEvent
    life,               \* history: last begin / writing commit / rollback per aggregate id
    rolledBack,         \* history: <<aggregate id, payload>> of the events a rollback discarded
    snapshotFrequency,  \* StreamHelper.config.snapshotFrequency
    ledger,             \* history: the bank calls that succeeded, per account id
    aggregateConfig,    \* AggregateHelper.aggregateConfig: the stream name prefixes
    frame               \* per caller: the AccountAggregateV2 operation in flight

vars == <<streams, pendingEvents, entityVersions, call, ret, nextEventId,
          life, rolledBack, snapshotFrequency, ledger, aggregateConfig, frame>>

(***************************************************************************)
(* Bounds of the model.                                                    *)
(***************************************************************************)
MaxEvents == 2          \* events accepted by addEvent over a whole run

MaxLen == 3             \* events in the stream that SpecRead reconstructs
MaxSnapshots == 2       \* records in its snapshot stream
MaxFreq == 2            \* snapshotFrequency is drawn from 0..MaxFreq
MaxConcurrentLen == 2   \* events in the stream that SpecReadConcurrent reconstructs

Callers == {"c1", "c2"}
SeqCallers == {"c1"}    \* the sequential specifications have one caller

(***************************************************************************)
(* Inputs: aggregate ids, event types and entity references, as in the     *)
(* AggregateHelper tests.                                                  *)
(***************************************************************************)
AggIds == {"test-123", "test-456"}
EventTypes == {"TestEvent"}
Undefined == "undefined"
IsUndefined(x) == ToString(x) = ToString(Undefined)

\* An object literal with a property whose value may be undefined: such a
\* property reaches neither the log nor a comparison, and is left out.
WithOptional(object, name, value) ==
    IF IsUndefined(value) THEN object ELSE object @@ (name :> value)

\* The optional arguments of a call, and one of them read back.
OptionalArgs(description, metadata) ==
    WithOptional(WithOptional([x \in {} |-> 0], "description", description),
                 "metadata", metadata)
Arg(args, name) == IF name \in DOMAIN args THEN args[name] ELSE Undefined
NoError == "none"
NoActiveTransaction == "No active transaction. Call beginTransaction first."
LogErrors == {"Append failed", "Commit failed"}

\* Inputs of the bank example: the account id crypto.randomUUID() yields, an
\* owner, an initial balance and the amounts of deposits and withdrawals.
AccountIds == {"test-account"}
V2AccountIds == {"test-uuid"}       \* the ids AccountAggregateV2.createAccount draws
BankIds == AccountIds \cup V2AccountIds
Owners == {"John Doe"}
InitialBalances == {1000}
DepositAmounts == {500}
WithdrawAmounts == {200, 2000}

EntityRef(id, type, version) == [id |-> id, type |-> type, version |-> version]

EntityRefLists ==
    { <<>>,
      <<EntityRef("item-1", "item", 1)>>,
      <<EntityRef("item-1", "item", 2), EntityRef("item-2", "item", 1)>> }

(***************************************************************************)
(* Configuration of the AggregateHelper under test.                        *)
(***************************************************************************)
aggregatePrefix == "test-aggregate-"
entityPrefixes == [item |-> "test-item-"]

\* Configuration of the AggregateHelper that AccountAggregateV2 constructs.
accountAggregatePrefix == "account-"
accountEntityPrefixes == [transaction |-> "transaction"]
accountSnapshotFrequency == 5

\* new AggregateHelper(client, config), as far as stream names go.
AggregateHelperConstructor(prefix, prefixes) ==
    [aggregatePrefix |-> prefix, entityPrefixes |-> prefixes]

getAggregateStreamId(aggregateId) == aggregateConfig.aggregatePrefix \o aggregateId

\* What a plain object inherits from Object.prototype, as the template string
\* `${...}` renders it: entityPrefixes[entityType] finds these properties too.
nativeCode(name) == "function " \o name \o "() { [native code] }"

ObjectPrototype ==
    [name \in {"toString", "toLocaleString", "valueOf", "hasOwnProperty",
               "isPrototypeOf", "propertyIsEnumerable", "__defineGetter__",
               "__defineSetter__", "__lookupGetter__", "__lookupSetter__"}
        |-> nativeCode(name)]
    @@ ("constructor" :> nativeCode("Object"))
    @@ ("__proto__" :> "[object Object]")

\* this.aggregateConfig.entityPrefixes[entityType] ?? entityType
getEntityStreamId(entityType, entityId) ==
    LET prefix == IF entityType \in DOMAIN aggregateConfig.entityPrefixes
                  THEN aggregateConfig.entityPrefixes[entityType]
                  ELSE IF entityType \in DOMAIN ObjectPrototype
                  THEN ObjectPrototype[entityType]
                  ELSE entityType
    IN  prefix \o "-" \o entityId

(***************************************************************************)
(* Map operations (JavaScript Map): a function whose domain is the key set.*)
(***************************************************************************)
MapHas(m, k) == k \in DOMAIN m
MapSet(m, k, v) == [x \in DOMAIN m \cup {k} |-> IF x = k THEN v ELSE m[x]]
MapDelete(m, k) == [x \in DOMAIN m \ {k} |-> m[x]]
EmptyMap == [x \in {} |-> 0]

(***************************************************************************)
(* The log client.                                                         *)
(***************************************************************************)
\* jsonEvent({type, data, metadata}): the event data handed to appendToStream.
\* Fields whose value is undefined do not reach the log (JSON).
jsonEvent(e) ==
    IF "metadata" \in DOMAIN e
    THEN [type |-> e.type, data |-> e.data, metadata |-> e.metadata]
    ELSE [type |-> e.type, data |-> e.data]

\* client.appendToStream(streamId, events) without an expected revision.
appendToStream(log, streamId, events) ==
    IF streamId \in DOMAIN log
    THEN [log EXCEPT ![streamId] = @ \o events]
    ELSE MapSet(log, streamId, events)

Idle == [pc |-> "idle"]
AllIdle == \A q \in Callers : call[q].pc = "idle"

Return(op, aggregateId, issued, batch) ==
    [op |-> op, agg |-> aggregateId, status |-> "ok", error |-> NoError,
     issued |-> issued, batch |-> batch]

Throw(op, aggregateId, error, issued, batch) ==
    [op |-> op, agg |-> aggregateId, status |-> "throw", error |-> error,
     issued |-> issued, batch |-> batch]

\* One appendToStream call issued by an operation and how it ended: "ok", or
\* the error the log client raised.
Issued(streamId, events, outcome) ==
    [stream |-> streamId, events |-> events, outcome |-> outcome]

\* Callers that hold the array stored under streamId lose sight of the map's
\* entry when the entry is replaced or deleted.
Detach(c, streamId) ==
    [q \in Callers |->
        IF c[q].pc \in {"commitEntity", "commitAggregate"} /\ c[q].streamId = streamId
        THEN [c[q] EXCEPT !.attached = FALSE]
        ELSE c[q]]

(***************************************************************************)
(* StreamHelper                                                            *)
(***************************************************************************)
Null == [isNull |-> TRUE]
NoRevision == -1
WrongExpectedVersion == "WrongExpectedVersion"

snapshotPrefix == "-snapshot"
currentEventVersion == 3
snapshotTimestamp == "2025-01-20T16:46:27-05:00"
stateTimestamp == "2025-01-21T07:04:17-05:00"

\* event.version, 0 when the event carries none (undefined is falsy like 0).
VersionOf(event) == IF "version" \in DOMAIN event THEN event.version ELSE 0

\* What a reducer or a migration that throws yields instead of its result.
Raised(error) == [raised |-> TRUE, error |-> error]
IsRaised(x) == "raised" \in DOMAIN x

\* What reading .value of an event whose data is null raises.
ReadingValueOfNull == "TypeError: Cannot read properties of null (reading 'value')"

\* The migrations of the StreamHelper tests: 1 -> 2 doubles the value,
\* 2 -> 3 adds one.
InvalidEventType == "Invalid event type"

migrateV1toV2(event) ==
    IF event.type # "valueUpdated" THEN Raised(InvalidEventType)
    ELSE IF event.data = Null THEN Raised(ReadingValueOfNull)
    ELSE [type |-> "valueUpdated", data |-> [value |-> event.data.value * 2], version |-> 2]

migrateV2toV3(event) ==
    IF event.type # "valueUpdated" THEN Raised(InvalidEventType)
    ELSE IF event.data = Null THEN Raised(ReadingValueOfNull)
    ELSE [type |-> "valueUpdated", data |-> [value |-> event.data.value + 1], version |-> 3]

eventMigrations ==
    << [fromVersion |-> 1, toVersion |-> 2, eventType |-> "valueUpdated"],
       [fromVersion |-> 2, toVersion |-> 3, eventType |-> "valueUpdated"] >>

migrate(k, event) == IF k = 1 THEN migrateV1toV2(event) ELSE migrateV2toV3(event)

\* The for loop of migrateEventIfNeeded over config.eventMigrations, from the
\* k-th migration on; `event` is the event as read, `migratedEvent` the result
\* so far.
RECURSIVE migrateLoop(_, _, _)
migrateLoop(k, event, migratedEvent) ==
    IF k > Len(eventMigrations) THEN migratedEvent
    ELSE LET migration == eventMigrations[k]
         IN  IF /\ migration.eventType = event.type
                /\ VersionOf(event) >= migration.fromVersion
                /\ migration.toVersion <= currentEventVersion
             THEN LET next == migrate(k, migratedEvent)
                  IN  IF IsRaised(next) THEN next
                      ELSE migrateLoop(k + 1, event, next)
             ELSE migrateLoop(k + 1, event, migratedEvent)

\* Mutant: the migrations are tried whatever the event's version.
migrateEventIfNeeded_NoVersionCheck(event) ==
    IF VersionOf(event) = 0 THEN event
    ELSE migrateLoop(1, event, event)

migrateEventIfNeeded(event) ==
    IF VersionOf(event) = 0 THEN event
    ELSE IF VersionOf(event) < currentEventVersion
         THEN migrateLoop(1, event, event)
         ELSE event

\* The reducer of the StreamHelper tests.
\* a + b of two values of which either may be undefined or NaN.
NaN == "NaN"
IsNumber(x) == ToString(x) \notin {ToString(Undefined), ToString(NaN)}
Plus(a, b) == IF IsNumber(a) /\ IsNumber(b) THEN a + b ELSE NaN

\* event.data.value: undefined when the payload has no such property.
dataValue(event) == IF "value" \in DOMAIN event.data THEN event.data.value ELSE Undefined

applyEvent(state, event) ==
    IF event.data = Null THEN Raised(ReadingValueOfNull)
    ELSE IF state = Null
    THEN [id |-> "1", value |-> dataValue(event), timestamp |-> stateTimestamp]
    ELSE [state EXCEPT !.value = Plus(state.value, dataValue(event)),
                       !.timestamp = stateTimestamp]

\* The reducer of the bank example, AccountAggregate.applyEvent.
FirstEventMustBeAccountCreated == "First event must be AccountCreated"
InsufficientFunds == "Insufficient funds"
UnknownEventType(type) == "Unknown event type: " \o type
CURRENT_EVENT_VERSION == 1

AccountState(id, owner, balance, createdAt, updatedAt, accountType, event) ==
    [id |-> id, owner |-> owner, balance |-> balance,
     version |-> CURRENT_EVENT_VERSION, createdAt |-> createdAt,
     updatedAt |-> updatedAt, accountType |-> accountType,
     metadata |-> IF "metadata" \in DOMAIN event THEN event.metadata ELSE Undefined,
     type |-> event.type, data |-> event.data]

AccountApplyEvent(state, event) ==
    IF state = Null
    THEN IF event.type # "AccountCreated"
         THEN Raised(FirstEventMustBeAccountCreated)
         ELSE AccountState(event.data.id, event.data.owner, event.data.initialBalance,
                           event.data.timestamp, event.data.timestamp,
                           IF "accountType" \in DOMAIN event.data
                           THEN event.data.accountType ELSE "checking",
                           event)
    ELSE IF event.type = "MoneyDeposited"
         THEN AccountState(state.id, state.owner, state.balance + event.data.amount,
                           state.createdAt, event.data.timestamp, state.accountType, event)
    ELSE IF event.type = "MoneyWithdrawn"
         THEN IF state.balance < event.data.amount
              THEN Raised(InsufficientFunds)
              ELSE AccountState(state.id, state.owner, state.balance - event.data.amount,
                                state.createdAt, event.data.timestamp, state.accountType,
                                event)
    ELSE Raised(UnknownEventType(event.type))

\* The reducer of AccountAggregateV2.  The state's version counts the events
\* folded; a withdrawal is folded whatever the balance.
OnlyFirstEventAccountCreated == "AccountCreated can only be the first event"

\* x || y takes y when x is falsy.
IsFalsy(x) ==
    ToString(x) \in {ToString(Undefined), ToString(Null), ToString(NaN), ToString(""),
                     ToString(0), ToString(FALSE)}

\* {...state, ...properties}: the properties of state, those named in
\* properties replaced or added.
Spread(state, properties) ==
    [k \in DOMAIN state \cup DOMAIN properties |->
        IF k \in DOMAIN properties THEN properties[k] ELSE state[k]]

eventMetadata(event) == IF "metadata" \in DOMAIN event THEN event.metadata ELSE Undefined

V2ApplyEvent(state, event) ==
    IF event.type = "AccountCreated"
    THEN IF state # Null
         THEN Raised(OnlyFirstEventAccountCreated)
         ELSE AccountState(event.data.id, event.data.owner, event.data.initialBalance,
                           event.data.timestamp, event.data.timestamp,
                           IF /\ "accountType" \in DOMAIN event.data
                              /\ ~IsFalsy(event.data.accountType)
                           THEN event.data.accountType ELSE "checking",
                           event)
    ELSE IF event.type = "MoneyDeposited"
         THEN IF state = Null
              THEN Raised(FirstEventMustBeAccountCreated)
              ELSE Spread(state, [balance |-> state.balance + event.data.amount,
                                  version |-> state.version + 1,
                                  updatedAt |-> event.data.timestamp,
                                  type |-> event.type, data |-> event.data,
                                  metadata |-> eventMetadata(event)])
    ELSE IF event.type = "MoneyWithdrawn"
         THEN IF state = Null
              THEN Raised(FirstEventMustBeAccountCreated)
              ELSE Spread(state, [balance |-> state.balance - event.data.amount,
                                  version |-> state.version + 1,
                                  updatedAt |-> event.data.timestamp,
                                  type |-> event.type, data |-> event.data,
                                  metadata |-> eventMetadata(event)])
    ELSE Raised(UnknownEventType(event.type))

\* The reducers a caller hands to getCurrentState.
TestReducer == "applyEvent"
AccountReducer == "AccountAggregate.applyEvent"
V2Reducer == "AccountAggregateV2.applyEvent"

\* applyEvent(state, migratedEvent), for the reducer the caller handed in.
Reduce(reducer, state, event) ==
    IF reducer = TestReducer THEN applyEvent(state, event)
    ELSE IF reducer = AccountReducer THEN AccountApplyEvent(state, event)
    ELSE V2ApplyEvent(state, event)

\* readEvents(streamName, fromRevision): the recorded events from revision
\* fromRevision on; a stream never written reads as [].
readEvents(log, streamName, fromRevision) ==
    IF streamName \in DOMAIN log
    THEN SubSeq(log[streamName], fromRevision + 1, Len(log[streamName]))
    ELSE <<>>

getLatestSnapshot(log, streamId) ==
    LET events == readEvents(log, streamId \o snapshotPrefix, 0)
    IN  IF Len(events) > 0 /\ events[Len(events)].type = "snapshot"
        THEN events[Len(events)].data
        ELSE Null

\* Mutant: the replay starts one revision after the snapshot's version.
replayFrom_OffByOne(snapshot) == IF snapshot # Null THEN snapshot.version + 1 ELSE 0

\* Where getCurrentState starts reading: BigInt(snapshot.version), or START.
replayFrom(snapshot) == IF snapshot # Null THEN snapshot.version ELSE 0

\* Mutant: the version starts at one when there is no snapshot.
startVersion_One(snapshot) == IF snapshot # Null THEN snapshot.version ELSE 1

\* The version getCurrentState starts counting from: snapshot?.version ?? 0.
startVersion(snapshot) == IF snapshot # Null THEN snapshot.version ELSE 0

\* Mutant: the fold starts from null although the replay starts at the snapshot.
startState_FromNull(snapshot) == Null

\* The state getCurrentState starts folding from: snapshot?.state ?? null.
startState(snapshot) == IF snapshot # Null THEN snapshot.state ELSE Null

\* Mutant: an event the reducer throws on is skipped.
RECURSIVE replay_SkipFailing(_, _, _, _)
replay_SkipFailing(reducer, state, version, events) ==
    IF events = <<>> THEN [state |-> state, version |-> version, migrated |-> <<>>]
    ELSE LET migratedEvent == migrateEventIfNeeded(Head(events))
             next == Reduce(reducer, state, migratedEvent)
         IN  IF IsRaised(next)
             THEN replay_SkipFailing(reducer, state, version, Tail(events))
             ELSE LET rest == replay_SkipFailing(reducer, next, version + 1, Tail(events))
                  IN  [rest EXCEPT !.migrated = <<migratedEvent>> \o @]

\* What the replay loop ends with when a migration or the reducer raised:
\* the error, with the events that had been handed to the reducer.
Aborted(error, migrated) == [raised |-> TRUE, error |-> error, migrated |-> migrated]

\* Mutant: an event whose migration throws is left out of the replay.
RECURSIVE replay_SkipUnmigrated(_, _, _, _)
replay_SkipUnmigrated(reducer, state, version, events) ==
    IF events = <<>> THEN [state |-> state, version |-> version, migrated |-> <<>>]
    ELSE LET migratedEvent == migrateEventIfNeeded(Head(events))
         IN  IF IsRaised(migratedEvent)
             THEN replay_SkipUnmigrated(reducer, state, version, Tail(events))
             ELSE LET next == Reduce(reducer, state, migratedEvent)
                  IN  IF IsRaised(next) THEN Aborted(next.error, <<migratedEvent>>)
                      ELSE LET rest == replay_SkipUnmigrated(reducer, next, version + 1,
                                                             Tail(events))
                           IN  [rest EXCEPT !.migrated = <<migratedEvent>> \o @]

\* Mutant: the events are folded newest first.
replay_NewestFirst(reducer, state, version, events) ==
    replay_SkipUnmigrated(reducer, state, version,
                          [k \in 1..Len(events) |-> events[Len(events) + 1 - k]])

\* The replay loop of getCurrentState: migrate, fold, count.  The result is
\* the final state and version with the events as handed to the reducer, or
\* what a migration or the reducer raised.
RECURSIVE replay(_, _, _, _)
replay(reducer, state, version, events) ==
    IF events = <<>> THEN [state |-> state, version |-> version, migrated |-> <<>>]
    ELSE LET migratedEvent == migrateEventIfNeeded(Head(events))
         IN  IF IsRaised(migratedEvent) THEN Aborted(migratedEvent.error, <<>>)
             ELSE LET next == Reduce(reducer, state, migratedEvent)
                  IN  IF IsRaised(next) THEN Aborted(next.error, <<migratedEvent>>)
                      ELSE LET rest == replay(reducer, next, version + 1, Tail(events))
                           IN  [rest EXCEPT !.migrated = <<migratedEvent>> \o @]

\* Mutant: a snapshot is due after every read of a non-empty stream.
shouldSnapshot_EveryRead(version, frequency) == frequency > 0 /\ version > 0

\* The condition under which getCurrentState calls createSnapshot.
shouldSnapshot(version, frequency) ==
    frequency > 0 /\ version > 0 /\ version % frequency = 0

\* Mutant: the snapshot records the version before the last event.
snapshotEvent_VersionBehind(state, version) ==
    jsonEvent([type |-> "snapshot",
               data |-> [state |-> state, version |-> version - 1,
                         timestamp |-> snapshotTimestamp]])

\* The record createSnapshot appends to the snapshot stream.
snapshotEvent(state, version) ==
    jsonEvent([type |-> "snapshot",
               data |-> [state |-> state, version |-> version,
                         timestamp |-> snapshotTimestamp]])

ReturnState(streamId, r, snapshot, seen, issued) ==
    [op |-> "getCurrentState", agg |-> streamId, status |-> "ok", error |-> NoError,
     issued |-> issued, batch |-> <<>>, state |-> r.state, version |-> r.version,
     snapshot |-> snapshot, seen |-> seen, events |-> r.events, migrated |-> r.migrated,
     frequency |-> r.frequency]

\* The error a migration or the reducer raised leaves getCurrentState; the
\* outcome keeps the events that had been handed to the reducer.
ThrowReplay(streamId, r) ==
    [op |-> "getCurrentState", agg |-> streamId, status |-> "throw", error |-> r.error,
     issued |-> <<>>, batch |-> <<>>, migrated |-> r.migrated]

\* The call record of a getCurrentState in flight.  awaitedBy names the
\* operation that awaits it ("none" when a caller called it directly).
GcsCall(log, streamId, reducer, awaitedBy, amount, args) ==
    [pc |-> "gcsRead", streamId |-> streamId, reducer |-> reducer,
     awaitedBy |-> awaitedBy, amount |-> amount, args |-> args,
     snapshot |-> getLatestSnapshot(log, streamId)]

\* The promise of getCurrentState settles with outcome: the caller has its
\* result, or the operation that awaits it is ready to resume.
Deliver(p, c, outcome) ==
    IF c.awaitedBy = "none"
    THEN /\ call' = [call EXCEPT ![p] = Idle]
         /\ ret' = [ret EXCEPT ![p] = outcome]
    ELSE /\ call' = [call EXCEPT ![p] =
                       [pc |-> "resume", op |-> c.awaitedBy, accountId |-> c.streamId,
                        amount |-> c.amount, args |-> c.args, result |-> outcome]]
         /\ UNCHANGED ret

\* getCurrentState up to the completion of its snapshot read.
getCurrentState(p, streamId, reducer) ==
    /\ call[p].pc = "idle"
    /\ call' = [call EXCEPT ![p] = GcsCall(streams, streamId, reducer, "none", 0,
                                           OptionalArgs(Undefined, Undefined))]
    /\ UNCHANGED <<streams, pendingEvents, entityVersions, ret, nextEventId, life,
                   rolledBack, snapshotFrequency, ledger>>

\* The read of the event stream completes; the events are folded, and the
\* snapshot append is issued when the cadence asks for one.  An error the
\* reducer raises leaves the try block through its catch, which rethrows it.
gcsReadEvents(p) ==
    LET c == call[p]
        events == readEvents(streams, c.streamId, replayFrom(c.snapshot))
        r == replay(c.reducer, startState(c.snapshot), startVersion(c.snapshot), events)
        result == [state |-> r.state, version |-> r.version, migrated |-> r.migrated,
                   events |-> events, frequency |-> snapshotFrequency]
        seen == IF c.streamId \in DOMAIN streams THEN Len(streams[c.streamId]) ELSE 0
    IN  /\ c.pc = "gcsRead"
        /\ IF IsRaised(r)
           THEN Deliver(p, c, ThrowReplay(c.streamId, r))
           ELSE IF shouldSnapshot(r.version, snapshotFrequency) /\ r.state # Null
           THEN /\ call' = [call EXCEPT ![p] =
                              [pc |-> "gcsSnapshot", streamId |-> c.streamId,
                               reducer |-> c.reducer, awaitedBy |-> c.awaitedBy,
                               amount |-> c.amount, args |-> c.args,
                               snapshot |-> c.snapshot, result |-> result, seen |-> seen]]
                /\ UNCHANGED ret
           ELSE Deliver(p, c, ReturnState(c.streamId, result, c.snapshot, seen, <<>>))
        /\ UNCHANGED <<streams, pendingEvents, entityVersions, nextEventId, life,
                       rolledBack, snapshotFrequency, ledger>>

\* Mutant: a snapshot record is written for every multiple of the frequency
\* the replay passed through.
gcsCreateSnapshot_EachBoundary(p) ==
    LET c == call[p]
        snapshotStream == c.streamId \o snapshotPrefix
        passed == {v \in (startVersion(c.snapshot) + 1)..c.result.version :
                       v % c.result.frequency = 0}
        events == [k \in 1..Cardinality(passed) |->
                      snapshotEvent(c.result.state, c.result.version)]
    IN  /\ c.pc = "gcsSnapshot"
        /\ streams' = appendToStream(streams, snapshotStream, events)
        /\ Deliver(p, c, ReturnState(c.streamId, c.result, c.snapshot, c.seen,
                                     <<Issued(snapshotStream, events, "ok")>>))
        /\ UNCHANGED <<pendingEvents, entityVersions, nextEventId, life, rolledBack,
                       snapshotFrequency, ledger>>

\* The await of createSnapshot's appendToStream completes.  When the append
\* fails, its error leaves getCurrentState through the catch, which rethrows it.
gcsCreateSnapshot(p) ==
    LET c == call[p]
        snapshotStream == c.streamId \o snapshotPrefix
        events == <<snapshotEvent(c.result.state, c.result.version)>>
    IN  /\ c.pc = "gcsSnapshot"
        /\ \/ /\ Len(readEvents(streams, snapshotStream, 0)) < MaxSnapshots
              /\ streams' = appendToStream(streams, snapshotStream, events)
              /\ Deliver(p, c, ReturnState(c.streamId, c.result, c.snapshot, c.seen,
                                           <<Issued(snapshotStream, events, "ok")>>))
           \/ \E error \in LogErrors :
                /\ Deliver(p, c, Throw("getCurrentState", c.streamId, error,
                                       <<Issued(snapshotStream, events, error)>>, <<>>))
                /\ UNCHANGED streams
        /\ UNCHANGED <<pendingEvents, entityVersions, nextEventId, life, rolledBack,
                       snapshotFrequency, ledger>>

\* new StreamHelper(client, config): a helper with another snapshot frequency
\* is constructed over the same log.
StreamHelperConstructor(frequency) ==
    /\ snapshotFrequency' = frequency
    /\ UNCHANGED <<streams, pendingEvents, entityVersions, call, ret, nextEventId,
                   life, rolledBack, ledger>>

\* appendEvent(streamId, event, expectedRevision): the expected revision is
\* handed to the log only when it is truthy.
appendEvent(p, streamId, event, expectedRevision) ==
    LET guarded == expectedRevision # NoRevision /\ expectedRevision # 0
        events == <<jsonEvent(event)>>
        length == Len(readEvents(streams, streamId, 0))
    IN  /\ call[p].pc = "idle"
        /\ \/ IF guarded /\ length - 1 # expectedRevision
              THEN /\ ret' = [ret EXCEPT ![p] =
                                Throw("appendEvent", streamId, WrongExpectedVersion,
                                      <<Issued(streamId, events, WrongExpectedVersion)>>,
                                      <<>>)]
                   /\ UNCHANGED streams
              ELSE /\ length < MaxLen
                   /\ streams' = appendToStream(streams, streamId, events)
                   /\ ret' = [ret EXCEPT ![p] =
                                Return("appendEvent", streamId,
                                       <<Issued(streamId, events, "ok")>>, <<>>)]
           \* any other error of client.appendToStream leaves appendEvent as it is
           \/ \E error \in LogErrors :
                 /\ ret' = [ret EXCEPT ![p] =
                              Throw("appendEvent", streamId, error,
                                    <<Issued(streamId, events, error)>>, <<>>)]
                 /\ UNCHANGED streams
        /\ UNCHANGED <<pendingEvents, entityVersions, call, nextEventId, life,
                       rolledBack, snapshotFrequency, ledger>>

\* An event recorded in the stream with a version, in the shape the
\* StreamHelper tests read: {type, data, version}.
recordEvent(streamId, event) ==
    /\ Len(readEvents(streams, streamId, 0)) < MaxLen
    /\ streams' = appendToStream(streams, streamId, <<event>>)
    /\ UNCHANGED <<pendingEvents, entityVersions, call, ret, nextEventId, life,
                   rolledBack, snapshotFrequency, ledger>>

(***************************************************************************)
(* AggregateHelper                                                         *)
(***************************************************************************)
\* The payload commitTransaction builds for one pending event:
\* {type, data, metadata, affectedEntities}.
eventData(event) ==
    IF "metadata" \in DOMAIN event
    THEN [type |-> event.type, data |-> event.data, metadata |-> event.metadata,
          affectedEntities |-> event.affectedEntities]
    ELSE [type |-> event.type, data |-> event.data,
          affectedEntities |-> event.affectedEntities]

\* jsonEvent({type: event.type, data: eventData}) of one pending event.
commitEvent(event) == jsonEvent([type |-> event.type, data |-> eventData(event)])

\* pendingEvents.map(event => jsonEvent(...)): the batch for the aggregate stream.
commitBatch(arr) == [k \in 1..Len(arr) |-> commitEvent(arr[k])]

\* Mutant: only the first entity of each event receives a copy.
RECURSIVE NextEntityPos_FirstOnly(_, _, _)
NextEntityPos_FirstOnly(arr, i, j) ==
    IF i > Len(arr) THEN <<0, 0>>
    ELSE IF j = 1 /\ Len(arr[i].affectedEntities) >= 1 THEN <<i, 1>>
    ELSE NextEntityPos_FirstOnly(arr, i + 1, 1)

\* The nested for-of loops of commitTransaction: the first (event, entity) pair
\* at or after position (i, j), or <<0, 0>> when the loops are over.
RECURSIVE NextEntityPos(_, _, _)
NextEntityPos(arr, i, j) ==
    IF i > Len(arr) THEN <<0, 0>>
    ELSE IF j <= Len(arr[i].affectedEntities) THEN <<i, j>>
    ELSE NextEntityPos(arr, i + 1, 1)

\* The loop of addEvent over affectedEntities: entityVersions.set per entity.
RECURSIVE trackEntityVersions(_, _)
trackEntityVersions(versions, affectedEntities) ==
    IF affectedEntities = <<>> THEN versions
    ELSE LET entity == Head(affectedEntities)
         IN  trackEntityVersions(
                 MapSet(versions, getEntityStreamId(entity.type, entity.id), entity.version),
                 Tail(affectedEntities))

\* Mutant: the catch block keeps the pending list.
commitCatchPending_Keep(pending, streamId) == pending

\* What the catch block of commitTransaction leaves of pendingEvents.
commitCatchPending(pending, streamId) == MapDelete(pending, streamId)

\* Mutant: rollback keeps the pending list.
rollbackPending_Keep(pending, streamId) == pending

\* Mutant: rollback empties the pending list instead of deleting it.
rollbackPending_Reset(pending, streamId) == MapSet(pending, streamId, <<>>)

\* Mutant: rollback discards the pending lists of every aggregate id.
rollbackPending_All(pending, streamId) == EmptyMap

\* What rollbackTransaction leaves of pendingEvents.
rollbackPending(pending, streamId) == MapDelete(pending, streamId)

\* Mutant: a successful commit keeps the pending list.
commitClearPending_Keep(pending, streamId) == pending

\* What the success path of commitTransaction leaves of pendingEvents.
commitClearPending(pending, streamId) == MapDelete(pending, streamId)

\* The guard of addEvent: !pendingEvents.
addEventNoTransaction(pending, streamId) == ~MapHas(pending, streamId)

\* The guard of commitTransaction: !pendingEvents || pendingEvents.length === 0.
commitNothingToDo(pending, streamId) ==
    ~MapHas(pending, streamId) \/ Len(pending[streamId]) = 0

\* The position a commit continues from once the (i, j)-th entity append is done,
\* as a call record.
CommitContinue(c, i, j, issued) ==
    LET pos == NextEntityPos(c.arr, i, j)
    IN  IF pos # <<0, 0>>
        THEN [c EXCEPT !.pc = "commitEntity", !.i = pos[1], !.j = pos[2],
                       !.issued = issued]
        ELSE [c EXCEPT !.pc = "commitAggregate", !.i = 0, !.j = 0,
                       !.issued = issued, !.events = commitBatch(c.arr)]

\* The ids of the events of arr that carry one (account events carry none).
EventIds(arr) ==
    {arr[k].data.value : k \in {m \in 1..Len(arr) : "value" \in DOMAIN arr[m].data}}

\* The events a rollback of aggregateId discards, as <<aggregate id, payload>>.
Discarded(pending, aggregateId) ==
    LET streamId == getAggregateStreamId(aggregateId)
    IN  IF MapHas(pending, streamId)
        THEN {<<aggregateId, id>> : id \in EventIds(pending[streamId])}
        ELSE {}

\* Mutant: beginTransaction keeps the pending list of a transaction that is
\* already open.
beginPending_KeepOpen(pending, streamId) ==
    IF MapHas(pending, streamId) THEN pending ELSE MapSet(pending, streamId, <<>>)

\* What beginTransaction leaves of pendingEvents: pendingEvents.set(streamId, []).
beginPending(pending, streamId) == MapSet(pending, streamId, <<>>)

\* Mutant: beginTransaction waits while a transaction of the aggregate is open.
beginTransaction_Exclusive(p, aggregateId) ==
    LET streamId == getAggregateStreamId(aggregateId)
    IN  /\ call[p].pc = "idle"
        /\ ~MapHas(pendingEvents, streamId)
        /\ pendingEvents' = beginPending(pendingEvents, streamId)
        /\ call' = Detach(call, streamId)
        /\ ret' = [ret EXCEPT ![p] = Return("beginTransaction", aggregateId, <<>>, <<>>)]
        /\ life' = [life EXCEPT ![aggregateId] = "begin"]
        /\ UNCHANGED <<streams, entityVersions, nextEventId, rolledBack, snapshotFrequency, ledger>>

beginTransaction(p, aggregateId) ==
    LET streamId == getAggregateStreamId(aggregateId)
    IN  /\ call[p].pc = "idle"
        /\ pendingEvents' = beginPending(pendingEvents, streamId)
        /\ call' = Detach(call, streamId)
        \* the outcome records, as batch, the pending list the call replaced
        /\ ret' = [ret EXCEPT ![p] =
                     Return("beginTransaction", aggregateId, <<>>,
                            IF MapHas(pendingEvents, streamId)
                            THEN pendingEvents[streamId] ELSE <<>>)]
        /\ life' = [life EXCEPT ![aggregateId] = "begin"]
        /\ UNCHANGED <<streams, entityVersions, nextEventId, rolledBack, snapshotFrequency, ledger>>

\* addEvent(aggregateId, event, affectedEntities).
addEventOf(p, aggregateId, event, affectedEntities) ==
    LET streamId == getAggregateStreamId(aggregateId)
        fullEvent == Spread(event, [affectedEntities |-> affectedEntities])
    IN  /\ call[p].pc = "idle"
        /\ IF addEventNoTransaction(pendingEvents, streamId)
           THEN /\ ret' = [ret EXCEPT ![p] =
                             Throw("addEvent", aggregateId, NoActiveTransaction, <<>>, <<>>)]
                /\ UNCHANGED <<streams, pendingEvents, entityVersions, call, nextEventId,
                               life, rolledBack, snapshotFrequency, ledger>>
           ELSE /\ nextEventId <= MaxEvents
                /\ pendingEvents' = MapSet(pendingEvents, streamId,
                                           Append(pendingEvents[streamId], fullEvent))
                \* pendingEvents.push mutates the array a commit in flight iterates
                /\ call' = [q \in Callers |->
                              IF /\ call[q].pc \in {"commitEntity", "commitAggregate"}
                                 /\ call[q].streamId = streamId
                                 /\ call[q].attached
                              THEN [call[q] EXCEPT !.arr = Append(@, fullEvent)]
                              ELSE call[q]]
                /\ entityVersions' = trackEntityVersions(entityVersions, affectedEntities)
                /\ nextEventId' = nextEventId + 1
                /\ ret' = [ret EXCEPT ![p] = Return("addEvent", aggregateId, <<>>, <<>>)]
                /\ UNCHANGED <<streams, life, rolledBack, snapshotFrequency, ledger>>

\* addEvent with the event of the AggregateHelper tests: its type, version 1
\* and a payload that tells the events of a run apart.
addEvent(p, aggregateId, type, affectedEntities) ==
    addEventOf(p, aggregateId,
               [type |-> type, version |-> 1, data |-> [value |-> nextEventId]],
               affectedEntities)

\* Mutant: commitTransaction raises when no transaction is open.
commitTransaction_Throws(p, aggregateId) ==
    LET streamId == getAggregateStreamId(aggregateId)
    IN  /\ call[p].pc = "idle"
        /\ IF ~MapHas(pendingEvents, streamId)
           THEN /\ ret' = [ret EXCEPT ![p] =
                             Throw("commitTransaction", aggregateId, NoActiveTransaction,
                                   <<>>, <<>>)]
                /\ UNCHANGED call
           ELSE IF Len(pendingEvents[streamId]) = 0
           THEN /\ ret' = [ret EXCEPT ![p] =
                             Return("commitTransaction", aggregateId, <<>>, <<>>)]
                /\ UNCHANGED call
           ELSE /\ call' = [call EXCEPT ![p] =
                              CommitContinue([pc |-> "commitEntity", agg |-> aggregateId,
                                              streamId |-> streamId,
                                              arr |-> pendingEvents[streamId],
                                              attached |-> TRUE, i |-> 0, j |-> 0,
                                              issued |-> <<>>, events |-> <<>>],
                                             1, 1, <<>>)]
                /\ UNCHANGED ret
        /\ UNCHANGED <<streams, pendingEvents, entityVersions, nextEventId, life,
                       rolledBack, snapshotFrequency, ledger>>

\* Mutant: the batch goes to the aggregate stream first, before any entity
\* stream is written.
commitTransaction_AggregateFirst(p, aggregateId) ==
    LET streamId == getAggregateStreamId(aggregateId)
    IN  /\ call[p].pc = "idle"
        /\ IF commitNothingToDo(pendingEvents, streamId)
           THEN /\ ret' = [ret EXCEPT ![p] =
                             Return("commitTransaction", aggregateId, <<>>, <<>>)]
                /\ UNCHANGED call
           ELSE /\ call' = [call EXCEPT ![p] =
                              [pc |-> "commitAggregate", agg |-> aggregateId,
                               streamId |-> streamId,
                               arr |-> pendingEvents[streamId],
                               attached |-> TRUE, i |-> 0, j |-> 0,
                               issued |-> <<>>,
                               events |-> commitBatch(pendingEvents[streamId])]]
                /\ UNCHANGED ret
        /\ UNCHANGED <<streams, pendingEvents, entityVersions, nextEventId, life,
                       rolledBack, snapshotFrequency, ledger>>

\* commitTransaction up to its first await.
commitTransaction(p, aggregateId) ==
    LET streamId == getAggregateStreamId(aggregateId)
    IN  /\ call[p].pc = "idle"
        /\ IF commitNothingToDo(pendingEvents, streamId)
           THEN /\ ret' = [ret EXCEPT ![p] =
                             Return("commitTransaction", aggregateId, <<>>, <<>>)]
                /\ UNCHANGED call
           ELSE /\ call' = [call EXCEPT ![p] =
                              CommitContinue([pc |-> "commitEntity", agg |-> aggregateId,
                                              streamId |-> streamId,
                                              arr |-> pendingEvents[streamId],
                                              attached |-> TRUE, i |-> 0, j |-> 0,
                                              issued |-> <<>>, events |-> <<>>],
                                             1, 1, <<>>)]
                /\ UNCHANGED ret
        /\ UNCHANGED <<streams, pendingEvents, entityVersions, nextEventId, life,
                       rolledBack, snapshotFrequency, ledger>>

\* Mutant: the catch block undoes the appends the commit already made.
CommitCatch_Compensating(p, error, issued) ==
    LET c == call[p]
        undone(s) == Cardinality({k \in 1..Len(issued) :
                                    issued[k].stream = s /\ issued[k].outcome = "ok"})
    IN  /\ streams' = [s \in DOMAIN streams |->
                          SubSeq(streams[s], 1, Len(streams[s]) - undone(s))]
        /\ pendingEvents' = MapDelete(pendingEvents, c.streamId)
        /\ entityVersions' = EmptyMap
        /\ call' = [Detach(call, c.streamId) EXCEPT ![p] = Idle]
        /\ ret' = [ret EXCEPT ![p] = Throw("commitTransaction", c.agg, error, issued, c.arr)]
        /\ life' = [life EXCEPT ![c.agg] = "commitThrew"]
        /\ UNCHANGED <<nextEventId, rolledBack, snapshotFrequency, ledger>>

\* The catch block of commitTransaction, entered when an append fails.
CommitCatch(p, error, issued) ==
    LET c == call[p]
    IN  /\ pendingEvents' = commitCatchPending(pendingEvents, c.streamId)
        /\ entityVersions' = EmptyMap
        /\ call' = [Detach(call, c.streamId) EXCEPT ![p] = Idle]
        /\ ret' = [ret EXCEPT ![p] = Throw("commitTransaction", c.agg, error, issued, c.arr)]
        /\ life' = [life EXCEPT ![c.agg] = "commitThrew"]
        /\ UNCHANGED <<streams, nextEventId, rolledBack, snapshotFrequency, ledger>>

\* Mutant: the entity append expects the entity stream at the claimed version.
commitAppendEntity_Enforced(p) ==
    LET c == call[p]
        event == c.arr[c.i]
        entity == event.affectedEntities[c.j]
        entityStreamId == getEntityStreamId(entity.type, entity.id)
        events == <<commitEvent(event)>>
    IN  /\ c.pc = "commitEntity"
        /\ IF Len(readEvents(streams, entityStreamId, 0)) - 1 = entity.version
           THEN /\ streams' = appendToStream(streams, entityStreamId, events)
                /\ call' = [call EXCEPT ![p] =
                              CommitContinue(c, c.i, c.j + 1,
                                             Append(c.issued,
                                                    Issued(entityStreamId, events, "ok")))]
                /\ UNCHANGED <<pendingEvents, entityVersions, ret, nextEventId, life,
                               rolledBack, snapshotFrequency, ledger>>
           ELSE CommitCatch(p, WrongExpectedVersion,
                            Append(c.issued,
                                   Issued(entityStreamId, events, WrongExpectedVersion)))

\* One await of client.appendToStream(entityStreamId, [jsonEvent(...)]) completes.
commitAppendEntity(p) ==
    LET c == call[p]
        event == c.arr[c.i]
        entity == event.affectedEntities[c.j]
        entityStreamId == getEntityStreamId(entity.type, entity.id)
        events == <<commitEvent(event)>>
    IN  /\ c.pc = "commitEntity"
        /\ \/ /\ streams' = appendToStream(streams, entityStreamId, events)
              /\ call' = [call EXCEPT ![p] =
                            CommitContinue(c, c.i, c.j + 1,
                                           Append(c.issued, Issued(entityStreamId, events, "ok")))]
              /\ UNCHANGED <<pendingEvents, entityVersions, ret, nextEventId, life,
                             rolledBack, snapshotFrequency, ledger>>
           \/ \E error \in LogErrors :
                CommitCatch(p, error, Append(c.issued, Issued(entityStreamId, events, error)))

\* The await of client.appendToStream(streamId, events) completes.
commitAppendAggregate(p) ==
    LET c == call[p]
    IN  /\ c.pc = "commitAggregate"
        /\ \/ /\ streams' = appendToStream(streams, c.streamId, c.events)
              /\ pendingEvents' = commitClearPending(pendingEvents, c.streamId)
              /\ entityVersions' = EmptyMap
              /\ call' = [Detach(call, c.streamId) EXCEPT ![p] = Idle]
              /\ ret' = [ret EXCEPT ![p] =
                           Return("commitTransaction", c.agg,
                                  Append(c.issued, Issued(c.streamId, c.events, "ok")), c.arr)]
              /\ life' = [life EXCEPT ![c.agg] = "commitOk"]
              /\ UNCHANGED <<nextEventId, rolledBack, snapshotFrequency, ledger>>
           \/ \E error \in LogErrors :
                CommitCatch(p, error, Append(c.issued, Issued(c.streamId, c.events, error)))

rollbackTransaction(p, aggregateId) ==
    LET streamId == getAggregateStreamId(aggregateId)
    IN  /\ call[p].pc = "idle"
        /\ pendingEvents' = rollbackPending(pendingEvents, streamId)
        /\ entityVersions' = EmptyMap
        /\ call' = Detach(call, streamId)
        /\ ret' = [ret EXCEPT ![p] = Return("rollbackTransaction", aggregateId, <<>>, <<>>)]
        /\ life' = [life EXCEPT ![aggregateId] = "rollback"]
        /\ rolledBack' = rolledBack \cup Discarded(pendingEvents, aggregateId)
        /\ UNCHANGED <<streams, nextEventId, snapshotFrequency, ledger>>

(***************************************************************************)
(* AccountAggregate (example-bank), over a StreamHelper                    *)
(***************************************************************************)
accountTimestamp == "2025-01-20T15:49:09-05:00"

\* The optional arguments of a call: those the tests hand in, or none.
TestMetadata == [userId |-> "test-user", source |-> "test", transactionId |-> "test-uuid"]
metadataArg(given) == IF given THEN TestMetadata ELSE Undefined
descriptionArg(given) == IF given THEN "Salary deposit" ELSE Undefined
accountTypeArg(given) == IF given THEN "savings" ELSE Undefined

\* accountType: 'savings' | 'checking' = 'checking'
accountTypeOf(accountType) == IF IsUndefined(accountType) THEN "checking" ELSE accountType

AccountCreated(accountId, owner, initialBalance, accountType, metadata) ==
    WithOptional(
        [type |-> "AccountCreated", version |-> CURRENT_EVENT_VERSION,
         data |-> [id |-> accountId, owner |-> owner, initialBalance |-> initialBalance,
                   accountType |-> accountTypeOf(accountType),
                   timestamp |-> accountTimestamp]],
        "metadata", metadata)

MoneyDeposited(amount, description, metadata) ==
    WithOptional(
        [type |-> "MoneyDeposited", version |-> CURRENT_EVENT_VERSION,
         data |-> WithOptional([amount |-> amount, timestamp |-> accountTimestamp],
                               "description", description)],
        "metadata", metadata)

MoneyWithdrawn(amount, description, metadata) ==
    WithOptional(
        [type |-> "MoneyWithdrawn", version |-> CURRENT_EVENT_VERSION,
         data |-> WithOptional([amount |-> amount, timestamp |-> accountTimestamp],
                               "description", description)],
        "metadata", metadata)

\* Mutant: withdraw never finds the funds insufficient.
insufficientFunds_Never(state, amount) == FALSE

\* Mutant: the funds are insufficient only when the balance is used up.
insufficientFunds_Exhausted(state, amount) == state.balance <= 0

\* The guard of withdraw: result.state.balance < amount.
insufficientFunds(state, amount) == state.balance < amount

\* What getAccount returns: result?.state ?? null.
ReturnAccount(accountId, state, issued) ==
    [op |-> "getAccount", agg |-> accountId, status |-> "ok", error |-> NoError,
     issued |-> issued, batch |-> <<>>, state |-> state]

\* createAccount: the id is a fresh random UUID; one append, awaited.
createAccount(p, accountId, owner, initialBalance, accountType, metadata) ==
    LET events == <<jsonEvent(AccountCreated(accountId, owner, initialBalance,
                                             accountType, metadata))>>
    IN  /\ call[p].pc = "idle"
        /\ accountId \notin DOMAIN streams
        /\ \/ /\ streams' = appendToStream(streams, accountId, events)
              /\ ret' = [ret EXCEPT ![p] =
                           Return("createAccount", accountId,
                                  <<Issued(accountId, events, "ok")>>, <<>>)]
              /\ ledger' = [ledger EXCEPT ![accountId] =
                              <<[op |-> "createAccount", amount |-> initialBalance]>>]
           \/ \E error \in LogErrors :
                /\ ret' = [ret EXCEPT ![p] =
                             Throw("createAccount", accountId, error,
                                   <<Issued(accountId, events, error)>>, <<>>)]
                /\ UNCHANGED <<streams, ledger>>
        /\ UNCHANGED <<pendingEvents, entityVersions, call, nextEventId, life,
                       rolledBack, snapshotFrequency>>

\* deposit, withdraw and getAccount up to the completion of the snapshot read
\* of the getCurrentState they await.
AccountCall(p, op, accountId, amount, description, metadata) ==
    /\ call[p].pc = "idle"
    /\ call' = [call EXCEPT ![p] = GcsCall(streams, accountId, AccountReducer, op, amount,
                                           OptionalArgs(description, metadata))]
    /\ UNCHANGED <<streams, pendingEvents, entityVersions, ret, nextEventId, life,
                   rolledBack, snapshotFrequency, ledger>>

deposit(p, accountId, amount, description, metadata) ==
    AccountCall(p, "deposit", accountId, amount, description, metadata)

withdraw(p, accountId, amount, description, metadata) ==
    AccountCall(p, "withdraw", accountId, amount, description, metadata)

getAccount(p, accountId) == AccountCall(p, "getAccount", accountId, 0, Undefined, Undefined)

\* The operation resumes after its await of getCurrentState: an error of
\* getCurrentState propagates; getAccount returns the state; deposit and
\* withdraw check the state and issue their append.
accountResume(p) ==
    LET c == call[p]
        result == c.result
        description == Arg(c.args, "description")
        metadata == Arg(c.args, "metadata")
        event == IF c.op = "deposit" THEN MoneyDeposited(c.amount, description, metadata)
                 ELSE MoneyWithdrawn(c.amount, description, metadata)
    IN  /\ c.pc = "resume"
        /\ IF result.status = "throw"
           THEN /\ ret' = [ret EXCEPT ![p] =
                             Throw(c.op, c.accountId, result.error, result.issued, <<>>)]
                /\ call' = [call EXCEPT ![p] = Idle]
           ELSE IF c.op = "getAccount"
           THEN /\ ret' = [ret EXCEPT ![p] =
                             ReturnAccount(c.accountId, result.state, result.issued)]
                /\ call' = [call EXCEPT ![p] = Idle]
           ELSE IF result.state = Null
           THEN /\ ret' = [ret EXCEPT ![p] =
                             Throw(c.op, c.accountId, FirstEventMustBeAccountCreated,
                                   result.issued, <<>>)]
                /\ call' = [call EXCEPT ![p] = Idle]
           ELSE IF c.op = "withdraw" /\ insufficientFunds(result.state, c.amount)
           THEN /\ ret' = [ret EXCEPT ![p] =
                             Throw(c.op, c.accountId, InsufficientFunds,
                                   result.issued, <<>>)]
                /\ call' = [call EXCEPT ![p] = Idle]
           ELSE /\ call' = [call EXCEPT ![p] =
                              [pc |-> "accountAppend", op |-> c.op,
                               accountId |-> c.accountId, amount |-> c.amount,
                               issued |-> result.issued,
                               events |-> <<jsonEvent(event)>>]]
                /\ UNCHANGED ret
        /\ UNCHANGED <<streams, pendingEvents, entityVersions, nextEventId, life,
                       rolledBack, snapshotFrequency, ledger>>

\* The await of streamHelper.appendEvent(accountId, event) completes.
accountAppendEvent(p) ==
    LET c == call[p]
    IN  /\ c.pc = "accountAppend"
        /\ call' = [call EXCEPT ![p] = Idle]
        /\ \/ /\ Len(readEvents(streams, c.accountId, 0)) < MaxLen
              /\ streams' = appendToStream(streams, c.accountId, c.events)
              /\ ret' = [ret EXCEPT ![p] =
                           Return(c.op, c.accountId,
                                  Append(c.issued, Issued(c.accountId, c.events, "ok")),
                                  <<>>)]
              /\ ledger' = [ledger EXCEPT ![c.accountId] =
                              Append(@, [op |-> c.op, amount |-> c.amount])]
           \/ \E error \in LogErrors :
                /\ ret' = [ret EXCEPT ![p] =
                             Throw(c.op, c.accountId, error,
                                   Append(c.issued, Issued(c.accountId, c.events, error)),
                                   <<>>)]
                /\ UNCHANGED <<streams, ledger>>
        /\ UNCHANGED <<pendingEvents, entityVersions, nextEventId, life, rolledBack,
                       snapshotFrequency>>

(***************************************************************************)
(* AccountAggregateV2 (example-bank), over an AggregateHelper.  The        *)
(* operation of caller p is at frame[p]; each call it awaits is a call of  *)
(* the helper by p, whose outcome it finds in ret[p].                      *)
(***************************************************************************)
V2AllIdle == \A q \in Callers : frame[q].pc = "idle"

\* crypto.randomUUID() for the transaction entity: an id no earlier call drew.
transactionId(n) == "tx-" \o ToString(n)

\* The transaction entity an operation hands to addEvent.
TransactionEntity(id) == EntityRef(id, "transaction", 1)

V2Return(op, accountId, issued, batch) ==
    Return("AccountAggregateV2." \o op, accountId, issued, batch)

V2Throw(op, accountId, error) ==
    Throw("AccountAggregateV2." \o op, accountId, error, <<>>, <<>>)

\* The frame once a step inside the try block has ended: in the catch block
\* with the error when the step raised, at position next otherwise.
V2Continue(f, outcome, next) ==
    IF outcome.status = "throw"
    THEN [f EXCEPT !.pc = "catch", !.error = outcome.error]
    ELSE [f EXCEPT !.pc = next]

\* await this.aggregateHelper.beginTransaction(accountId), the first call of
\* createAccount, deposit and withdraw.
V2beginTransaction(p, op, accountId, amount, event) ==
    /\ frame[p].pc = "idle"
    /\ nextEventId <= MaxEvents
    /\ beginTransaction(p, accountId)
    /\ frame' = [frame EXCEPT ![p] =
                    [pc |-> IF op = "createAccount" THEN "addEvent" ELSE "getCurrentState",
                     op |-> op, accountId |-> accountId, amount |-> amount,
                     event |-> event, error |-> NoError]]
    /\ UNCHANGED aggregateConfig

\* createAccount: the account id is a fresh random UUID.
V2createAccount(p, accountId, owner, initialBalance, accountType, metadata) ==
    /\ accountId \notin DOMAIN streams
    /\ getAggregateStreamId(accountId) \notin DOMAIN streams
    /\ V2beginTransaction(p, "createAccount", accountId, initialBalance,
                          AccountCreated(accountId, owner, initialBalance, accountType,
                                         metadata))

V2deposit(p, accountId, amount, description, metadata) ==
    V2beginTransaction(p, "deposit", accountId, amount,
                       MoneyDeposited(amount, description, metadata))

V2withdraw(p, accountId, amount, description, metadata) ==
    V2beginTransaction(p, "withdraw", accountId, amount,
                       MoneyWithdrawn(amount, description, metadata))

\* await this.aggregateHelper.getCurrentState(accountId, applyEvent) is called.
V2getCurrentState(p) ==
    /\ frame[p].pc = "getCurrentState"
    /\ getCurrentState(p, frame[p].accountId, V2Reducer)
    /\ frame' = [frame EXCEPT ![p].pc = "checkState"]
    /\ UNCHANGED aggregateConfig

\* getCurrentState has settled: its error, or the state checks of deposit and
\* withdraw.
V2checkState(p) ==
    LET f == frame[p]
        result == ret[p]
    IN  /\ f.pc = "checkState"
        /\ call[p].pc = "idle"
        /\ frame' = [frame EXCEPT ![p] =
                IF result.status = "throw"
                THEN V2Continue(f, result, "addEvent")
                ELSE IF result.state = Null
                THEN [f EXCEPT !.pc = "catch", !.error = FirstEventMustBeAccountCreated]
                ELSE IF f.op = "withdraw" /\ insufficientFunds(result.state, f.amount)
                THEN [f EXCEPT !.pc = "catch", !.error = InsufficientFunds]
                ELSE [f EXCEPT !.pc = "addEvent"]]
        /\ UNCHANGED <<streams, pendingEvents, entityVersions, call, ret, nextEventId,
                       life, rolledBack, snapshotFrequency, ledger, aggregateConfig>>

\* await this.aggregateHelper.addEvent(accountId, event, [transactionEntity]).
V2addEvent(p) ==
    LET f == frame[p]
    IN  /\ f.pc = "addEvent"
        /\ addEventOf(p, f.accountId, f.event,
                      <<TransactionEntity(transactionId(nextEventId))>>)
        /\ frame' = [frame EXCEPT ![p] = V2Continue(f, ret'[p], "commitTransaction")]
        /\ UNCHANGED aggregateConfig

\* await this.aggregateHelper.commitTransaction(accountId) is called.
V2commitTransaction(p) ==
    /\ frame[p].pc = "commitTransaction"
    /\ commitTransaction(p, frame[p].accountId)
    /\ frame' = [frame EXCEPT ![p].pc = "committed"]
    /\ UNCHANGED aggregateConfig

\* commitTransaction has settled: the operation returns, or enters its catch
\* block with the commit's error.
V2committed(p) ==
    LET f == frame[p]
    IN  /\ f.pc = "committed"
        /\ call[p].pc = "idle"
        /\ IF ret[p].status = "throw"
           THEN /\ frame' = [frame EXCEPT ![p] = V2Continue(f, ret[p], "idle")]
                /\ UNCHANGED ret
           ELSE /\ frame' = [frame EXCEPT ![p] = Idle]
                /\ ret' = [ret EXCEPT ![p] =
                             V2Return(f.op, f.accountId, ret[p].issued, ret[p].batch)]
        /\ UNCHANGED <<streams, pendingEvents, entityVersions, call, nextEventId,
                       life, rolledBack, snapshotFrequency, ledger, aggregateConfig>>

\* Mutant: the catch block rethrows without rolling back.
V2catch_NoRollback(p) ==
    /\ frame[p].pc = "catch"
    /\ frame' = [frame EXCEPT ![p].pc = "rethrow"]
    /\ UNCHANGED <<streams, pendingEvents, entityVersions, call, ret, nextEventId,
                   life, rolledBack, snapshotFrequency, ledger, aggregateConfig>>

\* catch (error) { await this.aggregateHelper.rollbackTransaction(accountId);
V2catch(p) ==
    /\ frame[p].pc = "catch"
    /\ rollbackTransaction(p, frame[p].accountId)
    /\ frame' = [frame EXCEPT ![p].pc = "rethrow"]
    /\ UNCHANGED aggregateConfig

\* throw error; }
V2rethrow(p) ==
    LET f == frame[p]
    IN  /\ f.pc = "rethrow"
        /\ frame' = [frame EXCEPT ![p] = Idle]
        /\ ret' = [ret EXCEPT ![p] = V2Throw(f.op, f.accountId, f.error)]
        /\ UNCHANGED <<streams, pendingEvents, entityVersions, call, nextEventId,
                       life, rolledBack, snapshotFrequency, ledger, aggregateConfig>>

\* getAccount: await this.aggregateHelper.getCurrentState(accountId, applyEvent)
\* is called, outside any transaction.
V2getAccount(p, accountId) ==
    /\ frame[p].pc = "idle"
    /\ getCurrentState(p, accountId, V2Reducer)
    /\ frame' = [frame EXCEPT ![p] =
                    [pc |-> "returnAccount", op |-> "getAccount", accountId |-> accountId,
                     amount |-> 0, event |-> Null, error |-> NoError]]
    /\ UNCHANGED aggregateConfig

\* return result?.state ?? null; an error of getCurrentState propagates.
V2returnAccount(p) ==
    LET f == frame[p]
    IN  /\ f.pc = "returnAccount"
        /\ call[p].pc = "idle"
        /\ frame' = [frame EXCEPT ![p] = Idle]
        /\ ret' = [ret EXCEPT ![p] =
                     IF ret[p].status = "throw"
                     THEN V2Throw(f.op, f.accountId, ret[p].error)
                     ELSE [ReturnAccount(f.accountId, ret[p].state, ret[p].issued)
                           EXCEPT !.op = "AccountAggregateV2.getAccount"]]
        /\ UNCHANGED <<streams, pendingEvents, entityVersions, call, nextEventId,
                       life, rolledBack, snapshotFrequency, ledger, aggregateConfig>>

(***************************************************************************)
(* The transaction coordinator used by one caller at a time.               *)
(***************************************************************************)
NoReturn == [op |-> "none", agg |-> "", status |-> "ok", error |-> NoError,
             issued |-> <<>>, batch |-> <<>>]

\* A step of the helpers themselves: the configuration stays as constructed
\* and no AccountAggregateV2 operation moves.
HelperStep == UNCHANGED <<aggregateConfig, frame>>

Init ==
    /\ streams = EmptyMap
    /\ pendingEvents = EmptyMap
    /\ entityVersions = EmptyMap
    /\ call = [p \in Callers |-> Idle]
    /\ ret = [p \in Callers |-> NoReturn]
    /\ nextEventId = 1
    /\ life = [a \in AggIds \cup BankIds |-> "none"]
    /\ rolledBack = {}
    /\ snapshotFrequency = 0
    /\ ledger = [a \in AccountIds |-> <<>>]
    /\ aggregateConfig = AggregateHelperConstructor(aggregatePrefix, entityPrefixes)
    /\ frame = [p \in Callers |-> Idle]

Next ==
    \E p \in SeqCallers :
        \/ \E a \in AggIds : AllIdle /\ beginTransaction(p, a) /\ HelperStep
        \/ \E a \in AggIds, t \in EventTypes, refs \in EntityRefLists :
              AllIdle /\ addEvent(p, a, t, refs) /\ HelperStep
        \/ \E a \in AggIds : AllIdle /\ commitTransaction(p, a) /\ HelperStep
        \/ \E a \in AggIds : AllIdle /\ rollbackTransaction(p, a) /\ HelperStep
        \/ commitAppendEntity(p) /\ HelperStep
        \/ commitAppendAggregate(p) /\ HelperStep

Spec == Init /\ [][Next]_vars

(***************************************************************************)
(* The transaction coordinator with a reader: one caller runs              *)
(* transactions, the other reconstructs the aggregate root streams with    *)
(* getCurrentState of the same AggregateHelper, between the calls of the   *)
(* first.                                                                  *)
(***************************************************************************)
Readers == Callers \ SeqCallers

NextRoundTrip ==
    \/ \E p \in SeqCallers :
          \/ \E a \in AggIds : AllIdle /\ beginTransaction(p, a) /\ HelperStep
          \/ \E a \in AggIds, t \in EventTypes, refs \in EntityRefLists :
                AllIdle /\ addEvent(p, a, t, refs) /\ HelperStep
          \/ \E a \in AggIds : AllIdle /\ commitTransaction(p, a) /\ HelperStep
          \/ \E a \in AggIds : AllIdle /\ rollbackTransaction(p, a) /\ HelperStep
          \/ commitAppendEntity(p) /\ HelperStep
          \/ commitAppendAggregate(p) /\ HelperStep
    \/ \E q \in Readers :
          \/ \E a \in AggIds :
                /\ AllIdle
                /\ getCurrentState(q, getAggregateStreamId(a), TestReducer)
                /\ HelperStep
          \/ gcsReadEvents(q) /\ HelperStep

SpecRoundTrip == Init /\ [][NextRoundTrip]_vars

(***************************************************************************)
(* The transaction coordinator with one caller per aggregate id: each      *)
(* caller runs the transactions of its own aggregate id, one call at a     *)
(* time, and the calls of the two callers interleave at every await.       *)
(***************************************************************************)
AggregateOf(p) == IF p \in SeqCallers THEN "test-123" ELSE "test-456"

NextIndependent ==
    \E p \in Callers :
        \/ beginTransaction(p, AggregateOf(p)) /\ HelperStep
        \/ \E t \in EventTypes, refs \in EntityRefLists :
              addEvent(p, AggregateOf(p), t, refs) /\ HelperStep
        \/ commitTransaction(p, AggregateOf(p)) /\ HelperStep
        \/ rollbackTransaction(p, AggregateOf(p)) /\ HelperStep
        \/ commitAppendEntity(p) /\ HelperStep
        \/ commitAppendAggregate(p) /\ HelperStep

SpecIndependent == Init /\ [][NextIndependent]_vars

(***************************************************************************)
(* The stream reconstructor used by one caller at a time.                  *)
(***************************************************************************)
ReadStreams == {"test"}
Values == {5}
ExpectedRevisions == {NoRevision, 0, 1}
EventVersions == 1..(currentEventVersion + 1)

ValueUpdated(value) == [type |-> "valueUpdated", data |-> [value |-> value]]
Versioned(event, version) ==
    [type |-> event.type, data |-> event.data, version |-> version]

InitRead ==
    /\ streams = EmptyMap
    /\ pendingEvents = EmptyMap
    /\ entityVersions = EmptyMap
    /\ call = [p \in Callers |-> Idle]
    /\ ret = [p \in Callers |-> NoReturn]
    /\ nextEventId = 1
    /\ life = [a \in AggIds \cup BankIds |-> "none"]
    /\ rolledBack = {}
    /\ snapshotFrequency \in 0..MaxFreq
    /\ ledger = [a \in AccountIds |-> <<>>]
    /\ aggregateConfig = AggregateHelperConstructor(aggregatePrefix, entityPrefixes)
    /\ frame = [p \in Callers |-> Idle]

NextRead ==
    \E p \in SeqCallers :
        \/ \E s \in ReadStreams :
              AllIdle /\ getCurrentState(p, s, TestReducer) /\ HelperStep
        \/ gcsReadEvents(p) /\ HelperStep
        \/ gcsCreateSnapshot(p) /\ HelperStep
        \/ \E s \in ReadStreams, v \in Values, r \in ExpectedRevisions :
              AllIdle /\ appendEvent(p, s, Versioned(ValueUpdated(v), 1), r) /\ HelperStep
        \/ \E s \in ReadStreams, v \in Values, n \in EventVersions :
              AllIdle /\ recordEvent(s, Versioned(ValueUpdated(v), n)) /\ HelperStep
        \/ \E f \in 0..MaxFreq :
              AllIdle /\ f # snapshotFrequency /\ StreamHelperConstructor(f) /\ HelperStep

SpecRead == InitRead /\ [][NextRead]_vars

(***************************************************************************)
(* The stream reconstructor used by two callers at once: the snapshot      *)
(* read, the event read and the snapshot append of one getCurrentState are *)
(* separate awaits, and appends and the other caller's steps run between   *)
(* them.                                                                   *)
(***************************************************************************)
\* The versions of the events appended meanwhile: one below and one at
\* currentEventVersion.
ConcurrentVersions == {1, currentEventVersion}

NextReadConcurrent ==
    \E p \in Callers :
        \/ \E s \in ReadStreams : getCurrentState(p, s, TestReducer) /\ HelperStep
        \/ gcsReadEvents(p) /\ HelperStep
        \/ gcsCreateSnapshot(p) /\ HelperStep
        \/ \E s \in ReadStreams, v \in Values, n \in ConcurrentVersions :
              /\ Len(readEvents(streams, s, 0)) < MaxConcurrentLen
              /\ recordEvent(s, Versioned(ValueUpdated(v), n))
              /\ HelperStep

SpecReadConcurrent == InitRead /\ [][NextReadConcurrent]_vars

(***************************************************************************)
(* A StreamHelper over a stream in which some events have null data: the   *)
(* migrations of the tests throw on them.                                  *)
(***************************************************************************)
NullData(version) == [type |-> "valueUpdated", data |-> Null, version |-> version]

MigratedVersions == 1..(currentEventVersion - 1)

NextMigrate ==
    \E p \in SeqCallers :
        \/ \E s \in ReadStreams :
              AllIdle /\ getCurrentState(p, s, TestReducer) /\ HelperStep
        \/ gcsReadEvents(p) /\ HelperStep
        \/ gcsCreateSnapshot(p) /\ HelperStep
        \/ \E s \in ReadStreams, v \in Values, n \in EventVersions :
              AllIdle /\ recordEvent(s, Versioned(ValueUpdated(v), n)) /\ HelperStep
        \/ \E s \in ReadStreams, n \in MigratedVersions :
              AllIdle /\ recordEvent(s, NullData(n)) /\ HelperStep
        \/ \E f \in 0..MaxFreq :
              AllIdle /\ f # snapshotFrequency /\ StreamHelperConstructor(f) /\ HelperStep

SpecMigrate == InitRead /\ [][NextMigrate]_vars

(***************************************************************************)
(* The bank account used by one caller at a time.  Events that no          *)
(* AccountAggregate call wrote can be in an account's stream.              *)
(***************************************************************************)
UnknownEvent(amount) ==
    [type |-> "UnknownEvent", version |-> 1,
     data |-> [amount |-> amount, timestamp |-> accountTimestamp]]

ForeignEvents == {UnknownEvent(100), MoneyWithdrawn(2000, Undefined, Undefined)}

NextBank ==
    \E p \in SeqCallers :
        \/ \E a \in AccountIds, o \in Owners, b \in InitialBalances,
              given \in BOOLEAN :
              /\ AllIdle
              /\ createAccount(p, a, o, b, accountTypeArg(given), metadataArg(given))
              /\ HelperStep
        \/ \E a \in AccountIds, x \in DepositAmounts, given \in BOOLEAN :
              /\ AllIdle
              /\ deposit(p, a, x, descriptionArg(given), metadataArg(given))
              /\ HelperStep
        \/ \E a \in AccountIds, x \in WithdrawAmounts, given \in BOOLEAN :
              /\ AllIdle
              /\ withdraw(p, a, x, descriptionArg(given), metadataArg(given))
              /\ HelperStep
        \/ \E a \in AccountIds : AllIdle /\ getAccount(p, a) /\ HelperStep
        \/ \E a \in AccountIds :
              AllIdle /\ getCurrentState(p, a, AccountReducer) /\ HelperStep
        \/ gcsReadEvents(p) /\ HelperStep
        \/ gcsCreateSnapshot(p) /\ HelperStep
        \/ accountResume(p) /\ HelperStep
        \/ accountAppendEvent(p) /\ HelperStep
        \/ \E a \in AccountIds, e \in ForeignEvents :
              AllIdle /\ recordEvent(a, e) /\ HelperStep

SpecBank == InitRead /\ [][NextBank]_vars

(***************************************************************************)
(* The bank account used by two callers at once: the state read, the       *)
(* balance check and the append of one call are separated by awaits, and   *)
(* the other caller's steps run between them.  getAccount is called when   *)
(* no other call is in flight.                                             *)
(***************************************************************************)
OverdrawAmounts == {600}    \* two of them exceed the initial balance, one does not

NextBankConcurrent ==
    \E p \in Callers :
        \/ \E a \in AccountIds, o \in Owners, b \in InitialBalances :
              createAccount(p, a, o, b, Undefined, Undefined) /\ HelperStep
        \/ \E a \in AccountIds, x \in DepositAmounts : 
              deposit(p, a, x, Undefined, Undefined) /\ HelperStep
        \/ \E a \in AccountIds, x \in OverdrawAmounts : 
              withdraw(p, a, x, Undefined, Undefined) /\ HelperStep
        \/ \E a \in AccountIds : AllIdle /\ getAccount(p, a) /\ HelperStep
        \/ gcsReadEvents(p) /\ HelperStep
        \/ gcsCreateSnapshot(p) /\ HelperStep
        \/ accountResume(p) /\ HelperStep
        \/ accountAppendEvent(p) /\ HelperStep

SpecBankConcurrent == InitRead /\ [][NextBankConcurrent]_vars

(***************************************************************************)
(* AccountAggregateV2 used by one caller at a time, on a log that the      *)
(* first AccountAggregate and other writers write to as well.              *)
(***************************************************************************)
InitV2 ==
    /\ streams = EmptyMap
    /\ pendingEvents = EmptyMap
    /\ entityVersions = EmptyMap
    /\ call = [p \in Callers |-> Idle]
    /\ ret = [p \in Callers |-> NoReturn]
    /\ nextEventId = 1
    /\ life = [a \in AggIds \cup BankIds |-> "none"]
    /\ rolledBack = {}
    /\ snapshotFrequency = accountSnapshotFrequency
    /\ ledger = [a \in AccountIds |-> <<>>]
    /\ aggregateConfig = AggregateHelperConstructor(accountAggregatePrefix,
                                                    accountEntityPrefixes)
    /\ frame = [p \in Callers |-> Idle]

\* No operation of any caller is under way.
Quiet == AllIdle /\ V2AllIdle

NextV2 ==
    \E p \in SeqCallers :
        \/ \E a \in V2AccountIds, o \in Owners, b \in InitialBalances,
              given \in BOOLEAN :
              /\ Quiet
              /\ V2createAccount(p, a, o, b, accountTypeArg(given), metadataArg(given))
        \/ \E a \in BankIds, x \in DepositAmounts, given \in BOOLEAN :
              /\ Quiet
              /\ V2deposit(p, a, x, descriptionArg(given), metadataArg(given))
        \/ \E a \in BankIds, x \in WithdrawAmounts, given \in BOOLEAN :
              /\ Quiet
              /\ V2withdraw(p, a, x, descriptionArg(given), metadataArg(given))
        \/ \E a \in BankIds : Quiet /\ V2getAccount(p, a)
        \/ V2getCurrentState(p)
        \/ V2checkState(p)
        \/ V2addEvent(p)
        \/ V2commitTransaction(p)
        \/ V2committed(p)
        \/ V2catch(p)
        \/ V2rethrow(p)
        \/ V2returnAccount(p)
        \/ gcsReadEvents(p) /\ HelperStep
        \/ commitAppendEntity(p) /\ HelperStep
        \/ commitAppendAggregate(p) /\ HelperStep
        \/ \E a \in AccountIds, o \in Owners, b \in InitialBalances :
              Quiet /\ createAccount(p, a, o, b, Undefined, Undefined) /\ HelperStep
        \/ \E a \in AccountIds, e \in ForeignEvents :
              Quiet /\ recordEvent(a, e) /\ HelperStep

SpecV2 == InitV2 /\ [][NextV2]_vars

(***************************************************************************)
(* AccountAggregateV2 used by two callers at once on one helper: an        *)
(* operation of one caller can run between any two awaits of the other's.  *)
(* The account is one the first AccountAggregate created.                  *)
(***************************************************************************)
NextConcurrent ==
    \E p \in Callers :
        \/ \E a \in AccountIds, o \in Owners, b \in InitialBalances :
              Quiet /\ createAccount(p, a, o, b, Undefined, Undefined) /\ HelperStep
        \/ \E a \in AccountIds, x \in DepositAmounts : 
              V2deposit(p, a, x, Undefined, Undefined)
        \/ V2getCurrentState(p)
        \/ V2checkState(p)
        \/ V2addEvent(p)
        \/ V2commitTransaction(p)
        \/ V2committed(p)
        \/ V2catch(p)
        \/ V2rethrow(p)
        \/ gcsReadEvents(p) /\ HelperStep
        \/ commitAppendEntity(p) /\ HelperStep
        \/ commitAppendAggregate(p) /\ HelperStep

SpecConcurrent == InitV2 /\ [][NextConcurrent]_vars

(***************************************************************************)
(* Properties                                                              *)
(***************************************************************************)
IsPrefix(a, b) == Len(a) <= Len(b) /\ SubSeq(b, 1, Len(a)) = a

OkCount(issued) == Cardinality({k \in 1..Len(issued) : issued[k].outcome = "ok"})

RECURSIVE SumRefs(_)
SumRefs(batch) ==
    IF batch = <<>> THEN 0
    ELSE Len(Head(batch).affectedEntities) + SumRefs(Tail(batch))

\* A recorded event is the copy of pending event e that commitTransaction writes.
IsCopyOf(recorded, e) == recorded.type = e.type /\ recorded.data.data = e.data

\* The payload that identifies a recorded copy of a pending event.
RecordedId(recorded) == recorded.data.data.value

AggStreams == {getAggregateStreamId(a) : a \in AggIds}

Range(seq) == {seq[k] : k \in 1..Len(seq)}

EntityStreams ==
    {getEntityStreamId(r.type, r.id) : r \in UNION {Range(refs) : refs \in EntityRefLists}}

RefsTo(affectedEntities, s) ==
    {j \in 1..Len(affectedEntities) :
        getEntityStreamId(affectedEntities[j].type, affectedEntities[j].id) = s}

\* The events an appendToStream call wrote are in the stream it wrote to.
InLog(log, x) ==
    /\ x.stream \in DOMAIN log
    /\ \A i \in 1..Len(x.events) :
          \E k \in 1..Len(log[x.stream]) : log[x.stream][k] = x.events[i]

\* The stream as the call that returned ret[p] read it.
replayFromScratch(log, streamId, seen) ==
    replay(TestReducer, Null, 0, SubSeq(readEvents(log, streamId, 0), 1, seen))

\* C1: snapshot transparency.  Whenever getCurrentState returns, having read a
\* stream of k+m events (from a snapshot at version k or from the start), the
\* version it returns is k+m and the state it returns is the state a replay of
\* all k+m events from scratch, with no snapshot, yields.
C1_SnapshotTransparency ==
    \A p \in Callers :
        (ret[p].op = "getCurrentState" /\ ret[p].status = "ok") =>
            LET scratch == replayFromScratch(streams, ret[p].agg, ret[p].seen)
            IN  /\ ret[p].version = ret[p].seen
                /\ ret[p].version = scratch.version
                /\ ret[p].state = scratch.state

\* A getCurrentState that started from a snapshot at version k > 0 and
\* replayed m > 0 later events has returned.
C1_Witness ==
    \E p \in Callers :
        /\ ret[p].op = "getCurrentState" /\ ret[p].status = "ok"
        /\ ret[p].snapshot # Null
        /\ ret[p].snapshot.version > 0
        /\ ret[p].seen > ret[p].snapshot.version

\* C2: commitTransaction is atomic across streams.  When a commit of a
\* non-empty pending list has ended (returned or thrown), either every append
\* of the commit (one per entity reference, one for the aggregate stream) has
\* taken effect, or none has.
C2_AtomicCommit ==
    \A p \in Callers :
        (ret[p].op = "commitTransaction" /\ ret[p].batch # <<>>) =>
            OkCount(ret[p].issued) \in {0, SumRefs(ret[p].batch) + 1}

\* C3: when an append inside commitTransaction fails, the error of that append
\* is the error the caller gets and the transaction is closed: the pending
\* list of the aggregate id is gone, and an addEvent that follows on the same
\* aggregate id without a new beginTransaction fails with 'No active
\* transaction'.
C3_FailedCommitClosesTransaction ==
    \A p \in Callers :
        /\ (ret[p].op = "commitTransaction" /\ ret[p].status = "throw") =>
              LET issued == ret[p].issued
              IN  /\ Len(issued) >= 1
                  /\ ret[p].error \in LogErrors
                  /\ ret[p].error = issued[Len(issued)].outcome
                  /\ ~MapHas(pendingEvents, getAggregateStreamId(ret[p].agg))
        /\ (ret[p].op = "addEvent" /\ life[ret[p].agg] = "commitThrew") =>
              /\ ret[p].status = "throw"
              /\ ret[p].error = NoActiveTransaction

\* An addEvent was attempted on an aggregate id whose last commit failed.
C3_Witness ==
    \E p \in Callers :
        /\ ret[p].op = "addEvent"
        /\ life[ret[p].agg] = "commitThrew"
        /\ ret[p].status = "throw"

\* C4: best-effort sequential commit.  No step removes an event from a stream;
\* the step in which the i-th append of a commit fails leaves the log as it
\* is, with the appends 1..i-1 of that commit in their streams; and
\* rollbackTransaction leaves the log as it is.
C4_BestEffortCommit ==
    [][ /\ \A s \in DOMAIN streams :
              s \in DOMAIN streams' /\ IsPrefix(streams[s], streams'[s])
        /\ \A p \in Callers :
              ( /\ call[p].pc \in {"commitEntity", "commitAggregate"}
                /\ call'[p].pc = "idle"
                /\ ret'[p].status = "throw" ) =>
                  LET issued == ret'[p].issued
                  IN  /\ streams' = streams
                      /\ \A k \in 1..(Len(issued) - 1) :
                            issued[k].outcome = "ok" /\ InLog(streams', issued[k])
        /\ \A p \in Callers, a \in AggIds :
              rollbackTransaction(p, a) => streams' = streams
      ]_vars

\* A commit has failed after at least one of its appends had succeeded, and
\* what that append wrote is in the log.
C4_Witness ==
    \E p \in Callers :
        /\ ret[p].op = "commitTransaction" /\ ret[p].status = "throw"
        /\ Len(ret[p].issued) >= 2
        /\ InLog(streams, ret[p].issued[1])

NoRolledBackInLog ==
    \A s \in DOMAIN streams : \A k \in 1..Len(streams[s]) :
        \A x \in rolledBack : x[2] # RecordedId(streams[s][k])

\* C5: rollbackTransaction appends nothing to the log, and an event that was
\* pending when its aggregate id was rolled back is never in any stream
\* afterwards, whatever operations follow.
C5_RollbackWritesNothing ==
    [][ /\ \A p \in Callers, a \in AggIds :
              rollbackTransaction(p, a) =>
                  (streams' = streams /\ ret'[p].issued = <<>> /\ call'[p].pc = "idle")
        /\ NoRolledBackInLog'
      ]_vars

\* An aggregate id had events rolled back and later committed a transaction.
C5_Witness ==
    \E a \in AggIds :
        /\ \E x \in rolledBack : x[1] = a
        /\ life[a] = "commitOk"
        /\ getAggregateStreamId(a) \in DOMAIN streams

\* C6: rollbackTransaction can be called in every state and returns normally;
\* once it has returned the aggregate id has no pending list, and addEvent on
\* that aggregate id fails with 'No active transaction' for as long as
\* rollback is the last of begin / commit / rollback on it.
C6_RollbackClosesTransaction ==
    /\ \A p \in SeqCallers, a \in AggIds :
          AllIdle => ENABLED rollbackTransaction(p, a)
    /\ \A p \in Callers :
          /\ (ret[p].op = "rollbackTransaction") =>
                /\ ret[p].status = "ok"
                /\ ~MapHas(pendingEvents, getAggregateStreamId(ret[p].agg))
          /\ (ret[p].op = "addEvent" /\ life[ret[p].agg] = "rollback") =>
                /\ ret[p].status = "throw"
                /\ ret[p].error = NoActiveTransaction

\* An addEvent was attempted on an aggregate id after its rollback.
C6_Witness ==
    \E p \in Callers :
        /\ ret[p].op = "addEvent"
        /\ life[ret[p].agg] = "rollback"
        /\ ret[p].status = "throw"

\* C7: an addEvent on an aggregate id that is in NO_TRANSACTION throws 'No
\* active transaction' and changes nothing: the pending map, the entity
\* versions and the log stay as they are and no operation is left in flight.
\* The aggregate id is in NO_TRANSACTION when it was never begun, when its last
\* begin was followed by a commit that wrote, by a commit that failed or by a
\* rollback, and also when the last call made was a commitTransaction on it
\* that returned normally, the commit of an empty pending list included (the
\* caller's last outcome is the last call made when no other caller has made
\* one).
C7_AddEventNeedsTransaction ==
    [][ \A p \in Callers, a \in AggIds, t \in EventTypes, refs \in EntityRefLists :
            ( /\ \/ life[a] # "begin"
                 \/ /\ ret[p].op = "commitTransaction"
                    /\ ret[p].agg = a
                    /\ ret[p].status = "ok"
                    /\ \A q \in Callers \ {p} : ret[q].op = "none"
              /\ addEvent(p, a, t, refs) ) =>
                /\ ret'[p].op = "addEvent"
                /\ ret'[p].status = "throw"
                /\ ret'[p].error = NoActiveTransaction
                /\ UNCHANGED <<pendingEvents, entityVersions, streams, call>>
      ]_vars

\* C8: commit fan-out.  A commitTransaction that returns after committing the
\* pending events e1..en has issued exactly r1+...+rn+1 appends, all
\* successful: for each ei and each entity stream, as many single-event
\* appends of a copy of ei to that stream as ei has references to it, and,
\* last, one append of the copies of e1..en, in order, to the aggregate stream.
C8_CommitFanOut ==
    \A p \in Callers :
        (ret[p].op = "commitTransaction" /\ ret[p].status = "ok" /\ ret[p].batch # <<>>) =>
            LET issued == ret[p].issued
                batch == ret[p].batch
                n == Len(issued)
            IN  /\ n = SumRefs(batch) + 1
                /\ \A k \in 1..n : issued[k].outcome = "ok"
                /\ issued[n].stream = getAggregateStreamId(ret[p].agg)
                /\ Len(issued[n].events) = Len(batch)
                /\ \A i \in 1..Len(batch) : IsCopyOf(issued[n].events[i], batch[i])
                /\ \A k \in 1..(n - 1) :
                      Len(issued[k].events) = 1 /\ issued[k].stream \in EntityStreams
                /\ \A i \in 1..Len(batch), s \in EntityStreams :
                      Cardinality({k \in 1..(n - 1) :
                                      /\ issued[k].stream = s
                                      /\ IsCopyOf(issued[k].events[1], batch[i])})
                        = Cardinality(RefsTo(batch[i].affectedEntities, s))

\* A commit of one pending event with two entity references has returned
\* after three appends.
C8_Witness ==
    \E p \in Callers :
        /\ ret[p].op = "commitTransaction" /\ ret[p].status = "ok"
        /\ Len(ret[p].batch) = 1
        /\ Len(ret[p].batch[1].affectedEntities) = 2
        /\ Len(ret[p].issued) = 3

\* Every committed event is in its aggregate stream once, and in each entity
\* stream as often as it references that entity.
WrittenOnce ==
    \A s \in DOMAIN streams : \A k \in 1..Len(streams[s]) :
        LET x == streams[s][k]
            copies == {m \in 1..Len(streams[s]) : RecordedId(streams[s][m]) = RecordedId(x)}
        IN  IF s \in AggStreams
            THEN Cardinality(copies) = 1
            ELSE Cardinality(copies) = Cardinality(RefsTo(x.data.affectedEntities, s))

\* C9: no transaction is committed twice.  A commitTransaction that follows a
\* successful commit of the same aggregate id, with no beginTransaction in
\* between, returns at once without issuing an append, and the log holds what
\* the first commit wrote exactly once.
C9_NoDoubleCommit ==
    [][ /\ \A p \in Callers, a \in AggIds :
              (life[a] = "commitOk" /\ commitTransaction(p, a)) =>
                  /\ ret'[p].op = "commitTransaction"
                  /\ ret'[p].status = "ok"
                  /\ ret'[p].issued = <<>>
                  /\ call'[p].pc = "idle"
                  /\ streams' = streams
        /\ WrittenOnce'
      ]_vars

\* A second commitTransaction has returned, without an append, after a
\* successful commit of the same aggregate id.
C9_Witness ==
    \E p \in Callers :
        /\ ret[p].op = "commitTransaction"
        /\ ret[p].issued = <<>>
        /\ life[ret[p].agg] = "commitOk"
        /\ getAggregateStreamId(ret[p].agg) \in DOMAIN streams

\* C10 as claimed: commitTransaction on an aggregate id that was never begun
\* fails with a NoActiveTransaction error.
C10_CommitWithoutBeginThrows ==
    \A p \in Callers :
        (ret[p].op = "commitTransaction" /\ life[ret[p].agg] = "none") =>
            /\ ret[p].status = "throw"
            /\ ret[p].error = NoActiveTransaction

\* C10, amended: commitTransaction on an aggregate id with no transaction open
\* (never begun, or closed by a commit or a rollback) raises no error: it
\* returns normally at once, issues no append and leaves the pending map, the
\* entity versions and the log as they are.
C10_CommitWithoutBeginIsNoOp ==
    [][ \A p \in Callers, a \in AggIds :
            (life[a] # "begin" /\ commitTransaction(p, a)) =>
                /\ ret'[p] = Return("commitTransaction", a, <<>>, <<>>)
                /\ UNCHANGED <<call, streams, pendingEvents, entityVersions>>
      ]_vars

\* A commitTransaction has returned normally on an aggregate id never begun.
C10_Witness ==
    \E p \in Callers :
        /\ ret[p].op = "commitTransaction"
        /\ life[ret[p].agg] = "none"
        /\ ret[p].status = "ok"

\* A getCurrentState call of caller p has returned a state and a version.
Returned(p) == ret[p].op = "getCurrentState" /\ ret[p].status = "ok"

\* What the chain of the configured migrations makes of value x at version v:
\* 1 -> 2 doubles, 2 -> 3 adds one.
ChainedValue(v, x) == IF v = 1 THEN (x * 2) + 1 ELSE x + 1

\* C11: migration chaining.  Every replayed event of type valueUpdated at a
\* version v below currentEventVersion, for which the migrations v -> v+1, ...,
\* up to currentEventVersion are configured, reaches the reducer as the
\* composition of these migrations in chain order: at version
\* currentEventVersion, with value 11 for value 5 at version 1.
C11_MigrationChaining ==
    \A p \in Callers :
        Returned(p) =>
            \A k \in 1..Len(ret[p].events) :
                LET e == ret[p].events[k]
                    m == ret[p].migrated[k]
                IN  (e.type = "valueUpdated" /\ VersionOf(e) \in 1..(currentEventVersion - 1)) =>
                        /\ VersionOf(m) = currentEventVersion
                        /\ m.data.value = ChainedValue(VersionOf(e), e.data.value)

\* C12: migration idempotence.  A replayed event whose version is equal to or
\* greater than currentEventVersion reaches the reducer unchanged: no
\* migration has been applied to it.
C12_CurrentEventUnchanged ==
    \A p \in Callers :
        Returned(p) =>
            \A k \in 1..Len(ret[p].events) :
                VersionOf(ret[p].events[k]) >= currentEventVersion =>
                    ret[p].migrated[k] = ret[p].events[k]

\* A getCurrentState has replayed an event at currentEventVersion and an event
\* above it.
C12_Witness ==
    \E p \in Callers :
        /\ Returned(p)
        /\ \E k \in 1..Len(ret[p].events) :
              VersionOf(ret[p].events[k]) = currentEventVersion
        /\ \E k \in 1..Len(ret[p].events) :
              VersionOf(ret[p].events[k]) > currentEventVersion

\* The snapshot record of a state and a version.
SnapshotRecord(state, version) ==
    [type |-> "snapshot",
     data |-> [state |-> state, version |-> version, timestamp |-> snapshotTimestamp]]

\* C13: snapshot cadence.  A getCurrentState call that returns has appended a
\* record to the snapshot stream if and only if the snapshot frequency it ran
\* under is > 0, the version it returns is > 0 and that version is a multiple
\* of the frequency; the record is the one append the call issued, it is in
\* the snapshot stream of the stream read, and it carries exactly the state
\* and the version the call returns.  Under frequency 5 the condition holds
\* at version 5 and fails at version 4.
C13_SnapshotCadence ==
    /\ shouldSnapshot(5, 5)
    /\ ~shouldSnapshot(4, 5)
    /\ \A p \in Callers :
        Returned(p) =>
            LET due == /\ ret[p].frequency > 0
                       /\ ret[p].version > 0
                       /\ ret[p].version % ret[p].frequency = 0
            IN  /\ (ret[p].issued # <<>>) = due
                /\ due =>
                      /\ ret[p].issued =
                            <<Issued(ret[p].agg \o "-snapshot",
                                     <<SnapshotRecord(ret[p].state, ret[p].version)>>, "ok")>>
                      /\ InLog(streams, ret[p].issued[1])

\* A call under a frequency above one has written a snapshot, at a version
\* that is a multiple of the frequency.
C13_Witness ==
    \E p \in Callers :
        /\ Returned(p)
        /\ ret[p].frequency > 1
        /\ ret[p].issued # <<>>
        /\ ret[p].version % ret[p].frequency = 0

\* C14: a snapshot write failure is not fatal.  A getCurrentState call whose
\* append to the snapshot stream failed still returns the reconstructed state
\* and version instead of raising the error.
C14_SnapshotFailureNonFatal ==
    \A p \in Callers :
        ( /\ ret[p].op = "getCurrentState"
          /\ ret[p].issued # <<>>
          /\ ret[p].issued[1].outcome # "ok" ) =>
              /\ ret[p].status = "ok"
              /\ "state" \in DOMAIN ret[p]

\* The revision of a stream: the number of its last event, counted from 0.
Revision(log, streamId) == Len(readEvents(log, streamId, 0)) - 1

\* C15: appendEvent with an expected revision r >= 0 (r = 0 included) is
\* guarded: when the stream's revision is r the event is appended, otherwise
\* the call fails with the log's concurrency conflict and nothing is
\* appended.  (Of two appends with the same r, the first moves the revision
\* past r, so the second fails.)  An append that the log client rejects for
\* another reason fails with that error and appends nothing.
C15_ExpectedRevisionGuards ==
    [][ \A p \in Callers, s \in ReadStreams, v \in Values,
           r \in ExpectedRevisions \ {NoRevision} :
            appendEvent(p, s, Versioned(ValueUpdated(v), 1), r) =>
                \/ /\ ret'[p].status = "throw"
                   /\ ret'[p].error \in LogErrors
                   /\ streams' = streams
                \/ IF Revision(streams, s) = r
                   THEN ret'[p].status = "ok" /\ Revision(streams', s) = r + 1
                   ELSE /\ ret'[p].status = "throw"
                        /\ ret'[p].error = WrongExpectedVersion
                        /\ streams' = streams
      ]_vars

\* C16: getCurrentState on a stream that was never written (neither the event
\* stream nor the snapshot stream exists) does not raise, returns state null
\* at version 0 and issues no append.
C16_NeverWrittenIsNullAtZero ==
    \A p \in Callers :
        ret[p].op = "getCurrentState" =>
            /\ ret[p].status = "throw" => ret[p].agg \in DOMAIN streams
            /\ (ret[p].status = "ok" /\ ret[p].seen = 0 /\ ret[p].snapshot = Null) =>
                  /\ ret[p].state = Null
                  /\ ret[p].version = 0
                  /\ ret[p].issued = <<>>

\* A getCurrentState has returned on a stream never written, under a
\* frequency that would make snapshots.
C16_Witness ==
    \E p \in Callers :
        /\ Returned(p)
        /\ ret[p].agg \notin DOMAIN streams
        /\ (ret[p].agg \o snapshotPrefix) \notin DOMAIN streams
        /\ ret[p].frequency > 0
        /\ ret[p].state = Null

\* The error the reducer raises first when it folds events from state, or
\* NoError when it raises on none of them.
RECURSIVE FirstRaise(_, _, _)
FirstRaise(reducer, state, events) ==
    IF events = <<>> THEN NoError
    ELSE LET next == Reduce(reducer, state, migrateEventIfNeeded(Head(events)))
         IN  IF IsRaised(next) THEN next.error
             ELSE FirstRaise(reducer, next, Tail(events))

\* What a getCurrentState of caller p has settled with in this step: the
\* caller's result, or the result the awaiting operation resumes with.
SettledWith(p) == IF call'[p].pc = "resume" THEN call'[p].result ELSE ret'[p]

\* C17: when the caller's reducer raises on one of the replayed events,
\* getCurrentState raises that same error; it returns no state and no version
\* (not the state before the failing event either), issues no snapshot append
\* and leaves the log as it is.
C17_ReducerErrorAborts ==
    [][ \A p \in Callers :
            gcsReadEvents(p) =>
                LET c == call[p]
                    events == readEvents(streams, c.streamId, replayFrom(c.snapshot))
                    error == FirstRaise(c.reducer, startState(c.snapshot), events)
                IN  error # NoError =>
                        /\ call'[p].pc \in {"idle", "resume"}
                        /\ SettledWith(p).status = "throw"
                        /\ SettledWith(p).error = error
                        /\ "state" \notin DOMAIN SettledWith(p)
                        /\ "version" \notin DOMAIN SettledWith(p)
                        /\ SettledWith(p).issued = <<>>
                        /\ streams' = streams
      ]_vars

\* A getCurrentState has raised the reducer's error for an unknown event
\* type that follows at least one event the reducer accepted.
C17_Witness ==
    \E p \in Callers :
        /\ ret[p].op = "getCurrentState"
        /\ ret[p].status = "throw"
        /\ ret[p].error = UnknownEventType("UnknownEvent")
        /\ ret[p].issued = <<>>
        /\ Len(readEvents(streams, ret[p].agg, 0)) >= 2

\* C18: determinism.  When a getCurrentState call returns and the caller's
\* previous call was a getCurrentState on the same stream that returned, with
\* no event appended to the stream between the two reads, both return the
\* same state and the same version.
C18_Determinism ==
    [][ \A p \in Callers :
            ( /\ call[p].pc \in {"gcsRead", "gcsSnapshot"}
              /\ call'[p].pc = "idle"
              /\ ret'[p].status = "ok"
              /\ Returned(p)
              /\ ret[p].agg = ret'[p].agg
              /\ ret[p].seen = ret'[p].seen ) =>
                  /\ ret'[p].state = ret[p].state
                  /\ ret'[p].version = ret[p].version
      ]_vars

\* A getCurrentState has returned the state of a snapshot that an earlier
\* call wrote at the stream's present length: it replayed no event.
C18_Witness ==
    \E p \in Callers :
        /\ Returned(p)
        /\ ret[p].snapshot # Null
        /\ ret[p].snapshot.version = ret[p].seen
        /\ ret[p].seen = Len(readEvents(streams, ret[p].agg, 0))
        /\ ret[p].events = <<>>
        /\ ret[p].state = ret[p].snapshot.state

\* C19: with snapshotFrequency = 0 snapshotting is disabled entirely.  A
\* getCurrentState call made under frequency 0 appends no snapshot record and
\* replays the whole event stream from revision 0 with state null, whatever
\* the log holds.
C19_FrequencyZeroDisablesSnapshots ==
    \A p \in Callers :
        (Returned(p) /\ ret[p].frequency = 0) =>
            /\ ret[p].issued = <<>>
            /\ ret[p].snapshot = Null
            /\ Len(ret[p].events) = ret[p].seen

\* The balance the successful calls on an account add up to.
RECURSIVE LedgerBalance(_)
LedgerBalance(l) ==
    IF l = <<>> THEN 0
    ELSE LET last == l[Len(l)]
             before == LedgerBalance(SubSeq(l, 1, Len(l) - 1))
         IN  IF last.op = "createAccount" THEN last.amount
             ELSE IF last.op = "deposit" THEN before + last.amount
             ELSE before - last.amount

\* The account was created and its stream holds exactly the events of the
\* successful createAccount, deposit and withdraw calls.
OnlyBankCalls(log, a) ==
    Len(ledger[a]) >= 1 /\ Len(readEvents(log, a, 0)) = Len(ledger[a])

\* A reconstruction that read the whole stream of such an account returned
\* the balance of the ledger at the number of events appended.
BankReconstruction ==
    \A p \in Callers :
        ( /\ Returned(p)
          /\ ret[p].agg \in AccountIds
          /\ OnlyBankCalls(streams, ret[p].agg)
          /\ ret[p].seen = Len(ledger[ret[p].agg]) ) =>
              /\ ret[p].state # Null
              /\ ret[p].state.balance = LedgerBalance(ledger[ret[p].agg])
              /\ ret[p].version = Len(ledger[ret[p].agg])

\* C20: bank account end to end.  After a successful createAccount with
\* initial balance b and any sequence of successful deposit and withdraw
\* calls, reconstruction does not fail in the reducer and yields balance
\* b + sum(deposits) - sum(withdrawals) at version = number of events
\* appended; a withdraw of more than that balance raises 'Insufficient funds'
\* and appends nothing, so the version stays as it is.
C20_BankEndToEnd ==
    [][ /\ BankReconstruction'
        /\ \A p \in Callers :
              ( /\ gcsReadEvents(p)
                /\ call[p].streamId \in AccountIds
                /\ OnlyBankCalls(streams, call[p].streamId) ) =>
                    (call'[p].pc = "gcsSnapshot" \/ SettledWith(p).status = "ok")
        /\ \A p \in Callers :
              ( /\ accountResume(p)
                /\ call[p].op = "withdraw"
                /\ call[p].result.status = "ok"
                /\ OnlyBankCalls(streams, call[p].accountId)
                /\ call[p].amount > LedgerBalance(ledger[call[p].accountId]) ) =>
                    /\ call'[p].pc = "idle"
                    /\ ret'[p].op = "withdraw"
                    /\ ret'[p].status = "throw"
                    /\ ret'[p].error = InsufficientFunds
                    /\ streams' = streams
                    /\ ledger' = ledger
      ]_vars

\* The account created with 1000, after a deposit of 500 and a withdrawal of
\* 200, has been reconstructed with balance 1300 at version 3.
C20_Witness ==
    \E p \in Callers :
        /\ Returned(p)
        /\ ret[p].agg \in AccountIds
        /\ ledger[ret[p].agg] = << [op |-> "createAccount", amount |-> 1000],
                                   [op |-> "deposit", amount |-> 500],
                                   [op |-> "withdraw", amount |-> 200] >>
        /\ ret[p].version = 3
        /\ ret[p].state.balance = 1300

\* The appends of a list of issued appends all went to a snapshot stream.
OnlySnapshotAppends(issued) ==
    \A k \in 1..Len(issued) :
        \E a \in AccountIds : issued[k].stream = a \o snapshotPrefix

\* The event streams of the accounts, as opposed to their snapshot streams.
AccountLog(log) == [a \in AccountIds |-> readEvents(log, a, 0)]

\* C21 as claimed: a rejected bank operation appends nothing.  A deposit or
\* withdraw whose reconstruction returned state null fails with 'First event
\* must be AccountCreated', and a withdraw of more than the reconstructed
\* balance fails with 'Insufficient funds'; in both cases the operation has
\* appended no event to any stream: it has issued no append at all, and the
\* rejection leaves every stream as it is.
C21_RejectedIssuesNoAppend ==
    [][ \A p \in Callers :
          /\ ( /\ accountResume(p)
               /\ call[p].op \in {"deposit", "withdraw"}
               /\ call[p].result.status = "ok"
               /\ call[p].result.state = Null ) =>
                   /\ ret'[p].status = "throw"
                   /\ ret'[p].error = "First event must be AccountCreated"
                   /\ ret'[p].issued = <<>>
                   /\ streams' = streams
          /\ ( /\ accountResume(p)
               /\ call[p].op = "withdraw"
               /\ call[p].result.status = "ok"
               /\ call[p].result.state # Null
               /\ call[p].amount > call[p].result.state.balance ) =>
                   /\ ret'[p].status = "throw"
                   /\ ret'[p].error = "Insufficient funds"
                   /\ ret'[p].issued = <<>>
                   /\ streams' = streams
      ]_vars

\* C21, amended: a rejected bank operation appends no event to an account's
\* event stream.  A deposit or withdraw whose reconstruction returned state
\* null fails with 'First event must be AccountCreated', and a withdraw of
\* more than the reconstructed balance fails with 'Insufficient funds'; the
\* rejection leaves every stream as it is, and the account's event stream is,
\* at every step of the operation up to the rejection, what it was.  The
\* operation rejected for a null state has issued no append at all; the only
\* append the withdraw rejected for insufficient funds can have issued is the
\* snapshot record that the getCurrentState it awaited writes to a
\* '<accountId>-snapshot' stream when a snapshot is due.
C21_RejectedAppendsNothing ==
    [][ \A p \in Callers :
          /\ ( /\ accountResume(p)
               /\ call[p].op \in {"deposit", "withdraw"}
               /\ call[p].result.status = "ok"
               /\ call[p].result.state = Null ) =>
                   /\ call'[p] = Idle
                   /\ ret'[p].op = call[p].op
                   /\ ret'[p].status = "throw"
                   /\ ret'[p].error = "First event must be AccountCreated"
                   /\ ret'[p].issued = <<>>
                   /\ streams' = streams
          /\ ( /\ accountResume(p)
               /\ call[p].op = "withdraw"
               /\ call[p].result.status = "ok"
               /\ call[p].result.state # Null
               /\ call[p].amount > call[p].result.state.balance ) =>
                   /\ call'[p] = Idle
                   /\ ret'[p].op = "withdraw"
                   /\ ret'[p].status = "throw"
                   /\ ret'[p].error = "Insufficient funds"
                   /\ OnlySnapshotAppends(ret'[p].issued)
                   /\ streams' = streams
          /\ ( /\ call[p].pc \in {"gcsRead", "gcsSnapshot"}
               /\ call[p].awaitedBy \in {"deposit", "withdraw"} ) =>
                   AccountLog(streams') = AccountLog(streams)
      ]_vars

\* A withdraw of more than the balance has been rejected after the
\* reconstruction it awaited had written a snapshot record.
C21_Witness ==
    \E p \in Callers :
        /\ ret[p].op = "withdraw"
        /\ ret[p].status = "throw"
        /\ ret[p].error = InsufficientFunds
        /\ ret[p].issued # <<>>
        /\ ret[p].issued[1].outcome = "ok"
        /\ ret[p].agg \in DOMAIN streams

\* AccountAggregateV2.createAccount has returned account id a: its commit
\* wrote the AccountCreated event to the aggregate stream of a.
V2Created(log, a) ==
    /\ a \in V2AccountIds
    /\ getAggregateStreamId(a) \in DOMAIN log
    /\ log[getAggregateStreamId(a)][1].type = "AccountCreated"

\* The balance the events committed for account a add up to.
RECURSIVE CommittedBalance(_)
CommittedBalance(records) ==
    IF records = <<>> THEN 0
    ELSE LET last == records[Len(records)]
             before == CommittedBalance(SubSeq(records, 1, Len(records) - 1))
         IN  IF last.type = "AccountCreated" THEN last.data.data.initialBalance
             ELSE IF last.type = "MoneyDeposited" THEN before + last.data.data.amount
             ELSE before - last.data.data.amount

\* C22: AccountAggregateV2 reads what it writes.  Once createAccount(owner, b)
\* has returned accountId, the stream its commit wrote to is the stream that
\* getCurrentState(accountId) reads; a deposit on accountId does not fail
\* (unless the log fails an append), and getAccount(accountId) returns the
\* account with the balance of the committed events, b + a after a deposit
\* of a.
C22_V2ReadsWhatItWrites ==
    \A p \in Callers :
        LET a == ret[p].agg
        IN  /\ (ret[p].op = "AccountAggregateV2.createAccount" /\ ret[p].status = "ok") =>
                   ret[p].issued[Len(ret[p].issued)].stream = a
            /\ (ret[p].op = "AccountAggregateV2.deposit" /\ V2Created(streams, a)) =>
                   (ret[p].status = "ok" \/ ret[p].error \in LogErrors)
            /\ ( /\ ret[p].op = "AccountAggregateV2.getAccount"
                 /\ ret[p].status = "ok"
                 /\ V2Created(streams, a) ) =>
                   /\ ret[p].state # Null
                   /\ ret[p].state.balance =
                         CommittedBalance(streams[getAggregateStreamId(a)])

\* The positions of an AccountAggregateV2 operation inside its try block.
V2TryBlock == {"getCurrentState", "checkState", "addEvent", "commitTransaction",
               "committed"}

\* The operations of AccountAggregateV2 that open a transaction.
V2Transactional == {"createAccount", "deposit", "withdraw"}

\* C23: AccountAggregateV2 rolls back on every failure.  When a step after
\* beginTransaction fails inside createAccount, deposit or withdraw (the
\* reconstruction or the state check, addEvent, commitTransaction), the
\* operation enters its catch block with that error, calls
\* rollbackTransaction for its account id and then throws that same error;
\* and when an operation has completed, returned or thrown, no pending list
\* is left for its account id.
C23_V2RollsBackOnFailure ==
    [][ \A p \in Callers :
          LET f == frame[p]
          IN  /\ (f.pc = "checkState" /\ frame'[p] # f /\ ret[p].status = "throw") =>
                     (frame'[p].pc = "catch" /\ frame'[p].error = ret[p].error)
              /\ ( /\ f.pc = "checkState" /\ frame'[p] # f
                   /\ ret[p].status = "ok" /\ ret[p].state = Null ) =>
                     /\ frame'[p].pc = "catch"
                     /\ frame'[p].error = "First event must be AccountCreated"
              /\ ( /\ f.pc = "checkState" /\ frame'[p] # f /\ f.op = "withdraw"
                   /\ ret[p].status = "ok" /\ ret[p].state # Null
                   /\ ret[p].state.balance < f.amount ) =>
                     (frame'[p].pc = "catch" /\ frame'[p].error = "Insufficient funds")
              /\ (f.pc = "addEvent" /\ frame'[p] # f /\ ret'[p].status = "throw") =>
                     (frame'[p].pc = "catch" /\ frame'[p].error = ret'[p].error)
              /\ (f.pc = "committed" /\ frame'[p] # f /\ ret[p].status = "throw") =>
                     (frame'[p].pc = "catch" /\ frame'[p].error = ret[p].error)
              /\ (f.pc = "catch" /\ frame'[p] # f) =>
                     /\ rollbackTransaction(p, f.accountId)
                     /\ frame'[p] = [f EXCEPT !.pc = "rethrow"]
              /\ (f.pc = "rethrow" /\ frame'[p] # f) =>
                     /\ frame'[p].pc = "idle"
                     /\ ret'[p].op = "AccountAggregateV2." \o f.op
                     /\ ret'[p].status = "throw"
                     /\ ret'[p].error = f.error
              /\ (f.pc \in V2TryBlock /\ frame'[p] # f) =>
                     frame'[p].pc # "rethrow"
              /\ ( /\ f.pc # "idle" /\ frame'[p].pc = "idle"
                   /\ f.op \in V2Transactional ) =>
                     ~MapHas(pendingEvents', getAggregateStreamId(f.accountId))
      ]_vars

\* A withdraw of AccountAggregateV2 has thrown 'Insufficient funds' after its
\* rollback, and the account has no pending list.
C23_Witness ==
    \E p \in Callers :
        /\ ret[p].op = "AccountAggregateV2.withdraw"
        /\ ret[p].status = "throw"
        /\ ret[p].error = InsufficientFunds
        /\ life[ret[p].agg] = "rollback"
        /\ frame[p].pc = "idle"
        /\ ~MapHas(pendingEvents, getAggregateStreamId(ret[p].agg))

\* C24: every commitTransaction ends the transaction, the commit of an empty
\* pending list (a no-op) included.  When a caller's commitTransaction on an
\* aggregate id has completed, the aggregate id has no pending list, and an
\* addEvent that the caller makes next on that aggregate id fails with 'No
\* active transaction'.
C24_CommitEndsTransaction ==
    [][ \A p \in SeqCallers :
          /\ ret'[p].op = "commitTransaction" =>
                ~MapHas(pendingEvents', getAggregateStreamId(ret'[p].agg))
          /\ \A a \in AggIds, t \in EventTypes, refs \in EntityRefLists :
                ( /\ ret[p].op = "commitTransaction"
                  /\ ret[p].agg = a
                  /\ addEvent(p, a, t, refs) ) =>
                    /\ ret'[p].status = "throw"
                    /\ ret'[p].error = NoActiveTransaction
      ]_vars

\* No event of the pending list arr is in stream s of the log.
NoneWritten(log, s, arr) ==
    \A k \in 1..Len(readEvents(log, s, 0)) : RecordedId(log[s][k]) \notin EventIds(arr)

\* C25: commit write order.  Within one commitTransaction every entity-stream
\* append, for all pending events, is made before the single append to the
\* aggregate stream: while entity appends are outstanding the aggregate
\* stream holds no event of the commit, and the aggregate append is issued
\* only once all of them have succeeded.  So when an entity-stream append
\* fails, the aggregate stream has received no event from that commit.
C25_CommitWriteOrder ==
    [][ \A p \in Callers :
          LET c == call[p]
          IN  /\ commitAppendEntity(p) =>
                    /\ readEvents(streams', c.streamId, 0) = readEvents(streams, c.streamId, 0)
                    /\ NoneWritten(streams', c.streamId, c.arr)
              /\ commitAppendAggregate(p) =>
                    /\ Len(c.issued) = SumRefs(c.arr)
                    /\ \A k \in 1..Len(c.issued) :
                          /\ c.issued[k].outcome = "ok"
                          /\ c.issued[k].stream # c.streamId
                          /\ InLog(streams, c.issued[k])
              /\ (c.pc = "commitEntity" /\ call'[p].pc = "idle") =>
                    /\ ret'[p].op = "commitTransaction"
                    /\ ret'[p].status = "throw"
                    /\ \A k \in 1..Len(ret'[p].issued) : ret'[p].issued[k].stream # c.streamId
              /\ ( /\ ret'[p].op = "commitTransaction"
                   /\ ret'[p].status = "throw"
                   /\ ret'[p].issued[Len(ret'[p].issued)].stream
                         # getAggregateStreamId(ret'[p].agg) ) =>
                    NoneWritten(streams', getAggregateStreamId(ret'[p].agg), ret'[p].batch)
      ]_vars

\* A commit has failed at its second entity-stream append: the first is in
\* its entity stream and the aggregate stream has no event of the commit.
C25_Witness ==
    \E p \in Callers :
        /\ ret[p].op = "commitTransaction" /\ ret[p].status = "throw"
        /\ Len(ret[p].issued) = 2
        /\ Len(ret[p].batch) = 1
        /\ Len(ret[p].batch[1].affectedEntities) = 2
        /\ InLog(streams, ret[p].issued[1])
        /\ NoneWritten(streams, getAggregateStreamId(ret[p].agg), ret[p].batch)

\* The entity streams the pending events of arr refer to.
ReferencedStreams(arr) ==
    UNION { {getEntityStreamId(arr[k].affectedEntities[j].type, arr[k].affectedEntities[j].id) :
                j \in 1..Len(arr[k].affectedEntities)} : k \in 1..Len(arr) }

\* The pending list of aggregate id a, empty when there is none.
PendingOf(pending, a) ==
    IF MapHas(pending, getAggregateStreamId(a)) THEN pending[getAggregateStreamId(a)] ELSE <<>>

\* The step ends a commitTransaction or is a rollbackTransaction of aggregate a.
EndsTransaction(p, a) ==
    \/ rollbackTransaction(p, a)
    \/ /\ call[p].pc \in {"commitEntity", "commitAggregate"}
       /\ call[p].agg = a
       /\ call'[p].pc = "idle"

\* C26: commit and rollback are scoped to their aggregate id.  When
\* commitTransaction(A) ends or rollbackTransaction(A) is called, every other
\* aggregate id B with an open transaction keeps its pending list, and the
\* entity versions that B's addEvent calls recorded (for the entities that
\* only B's pending events refer to) stay in the entity-version map.
C26_PerAggregateScope ==
    [][ \A p \in Callers, a \in AggIds, b \in AggIds :
          ( /\ a # b
            /\ MapHas(pendingEvents, getAggregateStreamId(b))
            /\ EndsTransaction(p, a) ) =>
                /\ MapHas(pendingEvents', getAggregateStreamId(b))
                /\ pendingEvents'[getAggregateStreamId(b)]
                      = pendingEvents[getAggregateStreamId(b)]
                /\ \A s \in ReferencedStreams(PendingOf(pendingEvents, b))
                            \ ReferencedStreams(PendingOf(pendingEvents, a)) :
                      /\ MapHas(entityVersions', s)
                      /\ entityVersions'[s] = entityVersions[s]
      ]_vars

\* The payloads of the events that a beginTransaction of aggregate id a on an
\* open transaction drops.
Dropped(pending, a) == EventIds(PendingOf(pending, a))

\* The event with payload id was accepted by addEvent and is now in no
\* pending list, in no commit in flight and in no stream.
Lost(id) ==
    /\ id < nextEventId
    /\ \A s \in DOMAIN pendingEvents : id \notin EventIds(pendingEvents[s])
    /\ \A q \in Callers :
          call[q].pc \in {"commitEntity", "commitAggregate"} => id \notin EventIds(call[q].arr)
    /\ \A s \in DOMAIN streams : \A k \in 1..Len(streams[s]) :
          RecordedId(streams[s][k]) # id

\* C27: beginTransaction on an aggregate id that is already OPEN resets its
\* pending list to empty (last call wins).  The events added before the
\* second beginTransaction are dropped: from then on they are in no pending
\* list and no stream, and no later step writes them; the commitTransaction
\* that follows commits the pending list as it is then, which holds only
\* events added after the second beginTransaction.
C27_BeginResetsPending ==
    [][ /\ \A p \in Callers, a \in AggIds :
              /\ beginTransaction(p, a) =>
                    /\ MapHas(pendingEvents', getAggregateStreamId(a))
                    /\ pendingEvents'[getAggregateStreamId(a)] = <<>>
                    /\ \A id \in Dropped(pendingEvents, a) : Lost(id)'
              /\ (commitTransaction(p, a) /\ call'[p].pc # "idle") =>
                    /\ call'[p].arr = pendingEvents[getAggregateStreamId(a)]
                    /\ \A id \in EventIds(call'[p].arr) : ~Lost(id)
        /\ \A id \in 1..MaxEvents : Lost(id) => Lost(id)'
      ]_vars

\* A beginTransaction on an open transaction has just dropped an event that
\* addEvent had accepted.
C27_Witness ==
    \E p \in Callers :
        /\ ret[p].op = "beginTransaction"
        /\ ret[p].batch # <<>>
        /\ pendingEvents[getAggregateStreamId(ret[p].agg)] = <<>>
        /\ \A id \in EventIds(ret[p].batch) : Lost(id)

\* The transaction ids of the events recorded at positions of stream s.
RecordedTransactions(log, s) ==
    [k \in 1..Len(readEvents(log, s, 0)) |->
        IF "affectedEntities" \in DOMAIN log[s][k].data
        THEN {log[s][k].data.affectedEntities[m].id :
                  m \in 1..Len(log[s][k].data.affectedEntities)}
        ELSE {}]

\* Some accepted event stands at two positions of the aggregate stream of a.
WrittenTwice(log, a) ==
    LET s == getAggregateStreamId(a)
        txs == RecordedTransactions(log, s)
    IN  \E k \in DOMAIN txs : \E m \in DOMAIN txs : k < m /\ txs[k] \cap txs[m] # {}

\* C28: the coordinator gives no mutual exclusion per aggregate id: whatever
\* another caller has open or in flight on an account, an idle caller's deposit
\* is let in (its beginTransaction runs and replaces the pending list), an
\* addEvent that is due runs against whichever list is in the map, and a
\* commitTransaction that is due starts on whichever list is in the map, even
\* while another commit is still writing that list.  Two interleaved deposits
\* on one account can therefore both return successfully with an accepted
\* event written to the aggregate stream twice.
C28_NoMutualExclusion ==
    \A q \in Callers :
        /\ (frame[q].pc = "idle" /\ call[q].pc = "idle" /\ nextEventId <= MaxEvents)
              => \A a \in AccountIds : \A x \in DepositAmounts : ENABLED 
                    V2deposit(q, a, x, Undefined, Undefined)
        /\ (frame[q].pc = "addEvent" /\ nextEventId <= MaxEvents) => ENABLED V2addEvent(q)
        /\ frame[q].pc = "commitTransaction" => ENABLED V2commitTransaction(q)

C28_Witness ==
    \E a \in AccountIds :
        /\ WrittenTwice(streams, a)
        /\ \A p \in Callers :
              /\ ret[p].op = "AccountAggregateV2.deposit"
              /\ ret[p].agg = a
              /\ ret[p].status = "ok"
              /\ frame[p].pc = "idle"

\* C29: migration lookup.  A replayed event is handed only to the migration
\* registered for its type and the version it has at that moment: with 1 -> 2
\* and 2 -> 3 configured and currentEventVersion 3, an event at version 2
\* reaches the reducer as the 2 -> 3 migration alone makes it, the 1 -> 2
\* migration never having been applied to it.
C29_MigrationLookup ==
    \A p \in Callers :
        Returned(p) =>
            \A k \in 1..Len(ret[p].events) :
                LET e == ret[p].events[k]
                IN  (e.type = "valueUpdated" /\ VersionOf(e) = 2) =>
                        ret[p].migrated[k] = migrateV2toV3(e)

\* The position of the first of events whose migration raises, 0 when the
\* migration of none of them does.
FirstUnmigrated(events) ==
    LET failing == {k \in 1..Len(events) : IsRaised(migrateEventIfNeeded(events[k]))}
    IN  IF failing = {} THEN 0
        ELSE CHOOSE k \in failing : \A m \in failing : k <= m

\* C30: when a migration function raises while the j-th replayed event is
\* being migrated, getCurrentState raises that error: the reducer has been
\* handed the events before the j-th only, no state and no version is
\* returned, no snapshot append is issued and the log is left as it is.
C30_MigrationErrorAborts ==
    [][ \A p \in Callers :
            gcsReadEvents(p) =>
                LET c == call[p]
                    events == readEvents(streams, c.streamId, replayFrom(c.snapshot))
                    j == FirstUnmigrated(events)
                IN  j # 0 =>
                        /\ call'[p].pc \in {"idle", "resume"}
                        /\ SettledWith(p).status = "throw"
                        /\ SettledWith(p).error = migrateEventIfNeeded(events[j]).error
                        /\ "state" \notin DOMAIN SettledWith(p)
                        /\ "version" \notin DOMAIN SettledWith(p)
                        /\ SettledWith(p).issued = <<>>
                        /\ Len(SettledWith(p).migrated) = j - 1
                        /\ streams' = streams
      ]_vars

\* A getCurrentState has raised a migration's error on an event that follows
\* one the reducer was handed and precedes another, under a frequency at
\* which the events before it alone would have made a snapshot due.
C30_Witness ==
    \E p \in Callers :
        /\ ret[p].op = "getCurrentState"
        /\ ret[p].status = "throw"
        /\ ret[p].error = ReadingValueOfNull
        /\ Len(ret[p].migrated) >= 1
        /\ Len(readEvents(streams, ret[p].agg, 0)) >= Len(ret[p].migrated) + 2
        /\ snapshotFrequency = 1
        /\ (ret[p].agg \o snapshotPrefix) \notin DOMAIN streams

\* What folding events, each after its migration, makes of state with the
\* reducer of the StreamHelper tests.
RECURSIVE FoldMigrated(_, _)
FoldMigrated(state, events) ==
    IF events = <<>> THEN state
    ELSE FoldMigrated(applyEvent(state, migrateEventIfNeeded(Head(events))), Tail(events))

\* C31: replay order.  A getCurrentState call that returns has handed to the
\* reducer the events of the stream from its start point (the snapshot's
\* version, or the beginning) up to the end of the stream as read, in log
\* order, each exactly once and each after its migration; the state is their
\* fold in that order and the version has grown by one per event.
C31_ReplayOrder ==
    \A p \in Callers :
        Returned(p) =>
            LET from == replayFrom(ret[p].snapshot)
                read == IF ret[p].agg \in DOMAIN streams
                        THEN SubSeq(streams[ret[p].agg], from + 1, ret[p].seen)
                        ELSE <<>>
            IN  /\ ret[p].events = read
                /\ Len(ret[p].migrated) = Len(read)
                /\ \A k \in 1..Len(read) :
                      ret[p].migrated[k] = migrateEventIfNeeded(read[k])
                /\ ret[p].state = FoldMigrated(startState(ret[p].snapshot), read)
                /\ ret[p].version = startVersion(ret[p].snapshot) + Len(read)

\* A getCurrentState has returned after folding three events of which the
\* first and the last differ, one of them migrated.
C31_Witness ==
    \E p \in Callers :
        /\ Returned(p)
        /\ Len(ret[p].events) = 3
        /\ ret[p].events[1] # ret[p].events[3]
        /\ ret[p].migrated[1] # ret[p].events[1]
        /\ ret[p].version = 3

\* C32: snapshots are never written mid-replay.  The step of getCurrentState
\* that reads and folds the events appends nothing; the one step after it that
\* writes the snapshot ends the call and appends at most one record, which
\* carries the version reached after the last event of the pass, however many
\* multiples of snapshotFrequency the pass went through; the call has issued
\* at most one append.
C32_OneSnapshotAfterReplay ==
    [][ \A p \in Callers :
            /\ gcsReadEvents(p) => streams' = streams
            /\ gcsCreateSnapshot(p) =>
                  LET c == call[p]
                      snapshotStream == c.streamId \o snapshotPrefix
                      before == readEvents(streams, snapshotStream, 0)
                      after == readEvents(streams', snapshotStream, 0)
                  IN  /\ call'[p].pc \in {"idle", "resume"}
                      /\ Len(SettledWith(p).issued) = 1
                      /\ \/ streams' = streams
                         \/ /\ Len(after) = Len(before) + 1
                            /\ SubSeq(after, 1, Len(before)) = before
                            /\ after[Len(after)].data.version =
                                  startVersion(c.snapshot) + Len(c.result.events)
                            /\ \A s \in DOMAIN streams :
                                  s # snapshotStream => streams'[s] = streams[s]
      ]_vars

\* A getCurrentState under frequency 1 has folded three events from the
\* beginning of the stream and written one snapshot, at version 3.
C32_Witness ==
    \E p \in Callers :
        /\ Returned(p)
        /\ ret[p].frequency = 1
        /\ ret[p].snapshot = Null
        /\ Len(ret[p].events) = 3
        /\ Len(ret[p].issued) = 1
        /\ ret[p].issued[1].outcome = "ok"
        /\ Len(readEvents(streams, ret[p].agg \o snapshotPrefix, 0)) = 1
        /\ streams[ret[p].agg \o snapshotPrefix][1].data.version = 3

\* The version the last reference of refs to entity stream s claims.
LastClaimed(refs, s) ==
    LET at == {k \in 1..Len(refs) : getEntityStreamId(refs[k].type, refs[k].id) = s}
    IN  refs[CHOOSE k \in at : \A m \in at : m <= k].version

\* C33: the version claimed in an entity reference is recorded and never
\* enforced.  An accepted addEvent leaves in entityVersions, per entity stream
\* it refers to, the version its last reference to it claims.  Each entity
\* append of commitTransaction is issued without an expected revision: it is
\* never refused for the stream's revision, and when the log accepts it the
\* copy of the event (its type and payload, with the references as given)
\* goes to the end of the entity stream, whatever version was claimed and
\* whatever the stream's revision is.
C33_ClaimedVersionNotEnforced ==
    [][ \A p \in Callers :
            /\ \A a \in AggIds, t \in EventTypes, refs \in EntityRefLists :
                  (addEvent(p, a, t, refs) /\ ret'[p].status = "ok") =>
                      \A k \in 1..Len(refs) :
                          LET s == getEntityStreamId(refs[k].type, refs[k].id)
                          IN  /\ MapHas(entityVersions', s)
                              /\ entityVersions'[s] = LastClaimed(refs, s)
            /\ commitAppendEntity(p) =>
                  LET c == call[p]
                      event == c.arr[c.i]
                      entity == event.affectedEntities[c.j]
                      s == getEntityStreamId(entity.type, entity.id)
                      before == readEvents(streams, s, 0)
                      after == readEvents(streams', s, 0)
                  IN  IF call'[p].pc = "idle" /\ ret'[p].status = "throw"
                      THEN ret'[p].error \in LogErrors /\ streams' = streams
                      ELSE /\ Len(after) = Len(before) + 1
                           /\ SubSeq(after, 1, Len(before)) = before
                           /\ after[Len(after)].type = event.type
                           /\ after[Len(after)].data.data = event.data
                           /\ after[Len(after)].data.affectedEntities = event.affectedEntities
      ]_vars

\* A commit has succeeded whose entity append went to an entity stream that
\* already held a record claiming the same version: the stream was well past
\* the revision claimed.
C33_Witness ==
    \E p \in Callers :
        /\ ret[p].op = "commitTransaction"
        /\ ret[p].status = "ok"
        /\ \E x \in 1..Len(ret[p].issued) :
              LET s == ret[p].issued[x].stream
              IN  /\ s # getAggregateStreamId(ret[p].agg)
                  /\ Len(streams[s]) >= 2
                  /\ streams[s][Len(streams[s])] = ret[p].issued[x].events[1]
                  /\ \E k \in 1..Len(ret[p].issued[x].events[1].data.affectedEntities) :
                        LET e == ret[p].issued[x].events[1].data.affectedEntities[k]
                        IN  /\ getEntityStreamId(e.type, e.id) = s
                            /\ \E m \in 1..Len(streams[s][1].data.affectedEntities) :
                                  streams[s][1].data.affectedEntities[m] = e

\* The records of the snapshot stream of stream s.
SnapshotsOf(log, s) == readEvents(log, s \o snapshotPrefix, 0)

\* C34: snapshot validity.  Under any interleaving of appends and concurrent
\* getCurrentState calls on a stream, every record in the stream's snapshot
\* stream has a version that is at most the number of events in the stream
\* and a state that is the fold of the stream's first `version` events.
C34_SnapshotValidity ==
    \A s \in ReadStreams :
        \A k \in 1..Len(SnapshotsOf(streams, s)) :
            LET snapshot == SnapshotsOf(streams, s)[k].data
                events == readEvents(streams, s, 0)
            IN  /\ snapshot.version <= Len(events)
                /\ snapshot.state = FoldMigrated(Null, SubSeq(events, 1, snapshot.version))

\* Two getCurrentState calls have overlapped: the snapshot stream holds a
\* snapshot at version 2 and after it one at version 1, which a call that had
\* read the stream earlier wrote later.
C34_Witness ==
    \E s \in ReadStreams :
        /\ Len(SnapshotsOf(streams, s)) = 2
        /\ SnapshotsOf(streams, s)[1].data.version = 2
        /\ SnapshotsOf(streams, s)[2].data.version = 1
        /\ streams[s][1] # streams[s][2]

\* C35: the last record of a snapshot stream is the newest snapshot: the
\* versions of the records of a snapshot stream never decrease in record
\* order, also when getCurrentState calls on the stream overlap with appends.
C35_SnapshotVersionsNonDecreasing ==
    \A s \in ReadStreams :
        \A k \in 1..Len(SnapshotsOf(streams, s)) :
            \A m \in 1..Len(SnapshotsOf(streams, s)) :
                k < m => SnapshotsOf(streams, s)[k].data.version
                            <= SnapshotsOf(streams, s)[m].data.version

\* C36: a getCurrentState call that starts from a snapshot and replays no
\* event issues no snapshot append, so reading an unchanged stream again never
\* adds a record at a version the snapshot stream already holds.
C36_NoSnapshotWithoutNewEvents ==
    /\ \A p \in Callers :
          (Returned(p) /\ ret[p].snapshot # Null /\ ret[p].events = <<>>) =>
              ret[p].issued = <<>>
    /\ \A s \in ReadStreams :
          \A k \in 1..Len(SnapshotsOf(streams, s)) :
              \A m \in 1..Len(SnapshotsOf(streams, s)) :
                  k # m => SnapshotsOf(streams, s)[k].data.version
                              # SnapshotsOf(streams, s)[m].data.version

\* C37: boundary crossing.  A getCurrentState call that returns, having
\* started at version v0 and ended at version v1 with a positive multiple of
\* the snapshot frequency in the interval (v0, v1], has appended a snapshot.
C37_BoundaryCrossingSnapshots ==
    \A p \in Callers :
        Returned(p) =>
            LET v0 == startVersion(ret[p].snapshot)
                v1 == ret[p].version
            IN  ( /\ ret[p].frequency > 0
                  /\ \E v \in (v0 + 1)..v1 : v % ret[p].frequency = 0 ) =>
                      /\ ret[p].issued # <<>>
                      /\ InLog(streams, ret[p].issued[1])

\* C38: no overdraft under concurrency.  However concurrent withdraw and
\* deposit calls on an account interleave, the events in the account's stream
\* replay without an error of the reducer, to a balance that is not below
\* zero, and no getAccount fails with 'Insufficient funds'.
C38_NoOverdraft ==
    /\ \A a \in AccountIds :
          LET r == replay(AccountReducer, Null, 0, readEvents(streams, a, 0))
          IN  /\ ~IsRaised(r)
              /\ r.state # Null => r.state.balance >= 0
    /\ \A p \in Callers :
          ret[p].op = "getAccount" => ret[p].error # InsufficientFunds

\* C39: commit/replay round trip.  When a commit has returned and a later
\* getCurrentState has replayed the aggregate root stream it wrote, the events
\* of the committed batch were handed to the reducer, in order, each with the
\* type, the version and the data payload it was added with.
C39_CommitReplayRoundTrip ==
    \A p, q \in Callers :
        ( /\ ret[p].op = "commitTransaction" /\ ret[p].status = "ok"
          /\ ret[p].batch # <<>>
          /\ Returned(q)
          /\ ret[q].agg = getAggregateStreamId(ret[p].agg)
          /\ ret[q].events = readEvents(streams, ret[q].agg, 0) ) =>
              LET n == Len(ret[q].migrated) - Len(ret[p].batch)
              IN  /\ n >= 0
                  /\ \A k \in 1..Len(ret[p].batch) :
                        LET added == ret[p].batch[k]
                            delivered == ret[q].migrated[n + k]
                        IN  /\ delivered.type = added.type
                            /\ VersionOf(delivered) = added.version
                            /\ delivered.data = added.data

\* The appends that commitTransaction of aggregate id a issues for the pending
\* list arr when nothing else runs: one per (event, entity reference) pair, in
\* the order of the list and of the references, then the batch.
RECURSIVE EntityAppendsAlone(_)
EntityAppendsAlone(arr) ==
    IF arr = <<>> THEN <<>>
    ELSE LET e == Head(arr)
         IN  [j \in 1..Len(e.affectedEntities) |->
                 [stream |-> getEntityStreamId(e.affectedEntities[j].type,
                                               e.affectedEntities[j].id),
                  events |-> <<commitEvent(e)>>]]
             \o EntityAppendsAlone(Tail(arr))

AppendsAlone(a, arr) ==
    EntityAppendsAlone(arr)
        \o <<[stream |-> getAggregateStreamId(a), events |-> commitBatch(arr)]>>

\* The appends the call of p has issued so far, without their outcomes.
AppendsOf(issued) ==
    [k \in 1..Len(issued) |-> [stream |-> issued[k].stream, events |-> issued[k].events]]

\* The step is one of caller q: a call of q, or an await of q that completes.
StepOf(q) == call'[q] # call[q] \/ ret'[q] # ret[q]

\* C40: transactions on distinct aggregate ids are independent with respect
\* to log writes.  With the calls on aggregate id A and those on B # A
\* interleaved in any way, a step of B's calls leaves A's pending list, A's
\* commit in flight, the outcome of A's last call and A's aggregate stream as
\* they are; a commit of A takes A's pending list, and the appends it issues
\* are, in order, those that the commit of this list issues when A's calls run
\* alone: all of them when it returns, up to the rejected one when it throws.
C40_IndependentLogWrites ==
    [][ \A p \in Callers :
          LET a == AggregateOf(p)
              streamId == getAggregateStreamId(a)
          IN  /\ \A q \in Callers \ {p} :
                    StepOf(q) =>
                        /\ call'[p] = call[p]
                        /\ ret'[p] = ret[p]
                        /\ MapHas(pendingEvents', streamId) = MapHas(pendingEvents, streamId)
                        /\ PendingOf(pendingEvents', a) = PendingOf(pendingEvents, a)
                        /\ readEvents(streams', streamId, 0) = readEvents(streams, streamId, 0)
              /\ (commitTransaction(p, a) /\ call'[p].pc # "idle") =>
                    /\ call'[p].arr = PendingOf(pendingEvents, a)
                    /\ call'[p].issued = <<>>
              /\ call'[p].pc \in {"commitEntity", "commitAggregate"} =>
                    /\ IsPrefix(AppendsOf(call'[p].issued), AppendsAlone(a, call'[p].arr))
                    /\ \A k \in 1..Len(call'[p].issued) : call'[p].issued[k].outcome = "ok"
              /\ (ret'[p].op = "commitTransaction" /\ ret'[p].batch # <<>>) =>
                    LET issued == ret'[p].issued
                        alone == AppendsAlone(a, ret'[p].batch)
                    IN  /\ IsPrefix(AppendsOf(issued), alone)
                        /\ \A k \in 1..(Len(issued) - 1) : issued[k].outcome = "ok"
                        /\ IF ret'[p].status = "ok"
                           THEN /\ Len(issued) = Len(alone)
                                /\ issued[Len(issued)].outcome = "ok"
                           ELSE /\ issued # <<>>
                                /\ issued[Len(issued)].outcome = ret'[p].error
      ]_vars

\* Both callers have committed one event with two entity references, and
\* their appends interleaved: the copy of the first caller's event is the
\* first record of one entity stream, that of the second caller's event the
\* first record of the other.
C40_Witness ==
    /\ \A p \in Callers :
          /\ ret[p].op = "commitTransaction" /\ ret[p].status = "ok"
          /\ ret[p].agg = AggregateOf(p)
          /\ Len(ret[p].batch) = 1
          /\ Len(ret[p].issued) = 3
    /\ \E p, q \in Callers, s, t \in EntityStreams :
          /\ p # q /\ s # t
          /\ Len(readEvents(streams, s, 0)) = 2
          /\ Len(readEvents(streams, t, 0)) = 2
          /\ IsCopyOf(streams[s][1], ret[p].batch[1])
          /\ IsCopyOf(streams[t][1], ret[q].batch[1])

====
